---- MODULE Spec2Model ----
(***************************************************************************)
(* Model of the eco-rs analysis back end (src-tauri).                      *)
(*                                                                         *)
(* Part 1: the audit orchestrator run_lighthouse_analysis                  *)
(* (sidecar/lighthouse.rs), the process registry AnalysisState.current_pid *)
(* and the host shutdown hook (lib.rs).  Every access to the slot is one   *)
(* `lock().await` statement, so each access is one atomic action; the code *)
(* between two awaits touches only locals (and, in the hook, the signal it  *)
(* sends), so it is taken together with the access before it.              *)
(*                                                                         *)
(* Text is a sequence of one-character strings.  The tokens "E" and "S"    *)
(* stand for the member lists of an error payload                          *)
(* ("error":true,"code":..,"message":..) and of a success payload (all     *)
(* required fields of RawSidecarSuccess).  "0xFF" is a byte that is not    *)
(* valid UTF-8, "U+FFFD" the replacement character.                        *)
(*                                                                         *)
(* Part 2: EcoIndexCalculator (calculator/ecoindex.rs) over the tables of  *)
(* domain/quantiles.rs, in exact arithmetic on fractions, and the two      *)
(* paths that score a page with it.                                        *)
(*                                                                         *)
(* Part 3: MetricsCollector::collect (browser/collector.rs) with its two   *)
(* counter tasks and the events of the page.                               *)
(***************************************************************************)
EXTENDS Integers, Sequences, FiniteSets, TLC

VARIABLES
    pc,           \* per run: position in run_lighthouse_analysis
    child,        \* per run: the spawned OS process: "none", "running", "exited"
    current_pid,  \* AnalysisState.current_pid (Option<u32>)
    events,       \* per run: what rx.recv() has returned so far
    stdout_data,  \* per run: local stdout_data
    stderr_data,  \* per run: local stderr_data
    exit_code,    \* per run: local exit_code (Option<i32>)
    result,       \* per run: the value returned
    signals,      \* pids handed to kill_process, in order
    input,        \* extract_json harness: the argument
    called,       \* extract_json harness: extract_json has returned
    output,       \* extract_json harness: the value returned
    q_in,         \* get_quantile_position harness: the table and two values
    q_out,        \* get_quantile_position harness: the two positions returned
    raw,          \* scoring harness: the raw counters of one page
    audit,        \* scoring harness: the result of the full-audit path
    eco,          \* scoring harness: the result of the fast path
    c_pc,         \* collect: position in MetricsCollector::collect
    page,         \* collect: the browser page: "none", "open", "closed"
    task,         \* collect: the two counter tasks and their event streams
    counter,      \* collect: request_count and total_size (atomics)
    c_local,      \* collect: the locals of collect
    c_trace,      \* collect: the steps collect has started, in order
    c_result      \* collect: the value returned

vars == <<pc, child, current_pid, events, stdout_data, stderr_data, exit_code,
          result, signals, input, called, output, q_in, q_out, raw, audit, eco,
          c_pc, page, task, counter, c_local, c_trace, c_result>>

runVars == <<pc, child, events, stdout_data, stderr_data, exit_code, result>>
hookVars == <<signals>>
harnessVars == <<input, called, output>>
calcVars == <<q_in, q_out, raw, audit, eco>>
collectVars == <<c_pc, page, task, counter, c_local, c_trace, c_result>>

----------------------------------------------------------------------------
(* Bounds *)

\* total number of stdout, stderr and error events delivered to all runs
MaxChunks == 2
\* longest text given to the extract_json harness
MaxLen == 6

\* invocations of the async command analyze_lighthouse; the runtime polls them
\* concurrently and the code takes no lock around a run
Runs == {1, 2}

----------------------------------------------------------------------------
(* Values *)

\* Option<T>: None is the empty sequence, Some(x) the one-element sequence
None == <<>>
Some(x) == <<x>>

\* child.pid(): every child process has its own pid
PidOf(r) == r

Pending == [kind |-> "Pending"]

Range(s) == {s[i] : i \in 1..Len(s)}

\* what the sidecar can write: log noise, an error payload or a success
\* payload followed by a newline, an object whose string member holds a brace
StdoutChunks ==
    { <<"x">>,
      <<"{", "E", "}", "\n">>,
      <<"{", "S", "}", "\n">>,
      <<"{", "\"", "}", "\"">> }

StderrChunks == { <<"w", "0xFF">> }

\* TerminatedPayload.code: Some(0), Some(1), or None when killed by a signal
ExitCodes == { Some(0), Some(1), None }

Event(t, d, c) == [type |-> t, data |-> d, code |-> c]

\* the two background tasks of collect: req_handle counts the
\* EventRequestWillBeSent events, size_handle adds up the encoded_data_length
\* of the EventLoadingFinished events
Tasks == {"req", "size"}

----------------------------------------------------------------------------
(* Numbers.  An f64 is modelled by the fraction it stands for, <<s, n, d>>:  *)
(* the sign s (-1, 0 or 1), the numerator n and the denominator d in lowest *)
(* terms.  n and d are natural numbers of any size, written as sequences of *)
(* digits in base Base, lowest digit first and no leading zero, so that 0   *)
(* is <<>>; numbers of at most three digits are computed with as integers.  *)
(* The arithmetic is exact, so the model leaves out the rounding of the     *)
(* last bit of an f64 operation.                                            *)

Base == 1000

Abs(a) == IF a < 0 THEN -a ELSE a

\* Euclid's algorithm, three steps at a time
RECURSIVE GcdNat(_, _)
GcdNat(a, b) ==
    CASE b = 0 -> a
      [] a % b = 0 -> b
      [] b % (a % b) = 0 -> a % b
      [] OTHER -> GcdNat(b % (a % b), (a % b) % (b % (a % b)))

Gcd(a, b) == GcdNat(Abs(a), Abs(b))

\* the digits of an integer k >= 0
RECURSIVE NatOf(_)
NatOf(k) == IF k = 0 THEN <<>> ELSE <<k % Base>> \o NatOf(k \div Base)

IsSmall(a) == Len(a) <= 3

DigitAt(a, i) == IF i <= Len(a) THEN a[i] ELSE 0

\* the integer of the three digits of a from digit i up
Digits3(a, i) ==
    DigitAt(a, i) + Base * (DigitAt(a, i + 1) + Base * DigitAt(a, i + 2))

\* the integer of at most three digits
Small(a) == Digits3(a, 1)

RECURSIVE Strip(_)
Strip(a) ==
    IF a = <<>> THEN <<>>
    ELSE IF a[Len(a)] = 0 THEN Strip(SubSeq(a, 1, Len(a) - 1))
    ELSE a

\* -1, 0 or 1 as a < b, a = b or a > b, from digit i down
RECURSIVE NCmpFrom(_, _, _)
NCmpFrom(a, b, i) ==
    IF i = 0 THEN 0
    ELSE IF a[i] < b[i] THEN -1
    ELSE IF a[i] > b[i] THEN 1
    ELSE NCmpFrom(a, b, i - 1)

NCmp(a, b) ==
    IF Len(a) < Len(b) THEN -1
    ELSE IF Len(a) > Len(b) THEN 1
    ELSE NCmpFrom(a, b, Len(a))

RECURSIVE NAddFrom(_, _, _, _)
NAddFrom(a, b, i, carry) ==
    IF i > Len(a) /\ i > Len(b)
    THEN (IF carry = 0 THEN <<>> ELSE <<carry>>)
    ELSE LET t == DigitAt(a, i) + DigitAt(b, i) + carry
         IN  <<t % Base>> \o NAddFrom(a, b, i + 1, t \div Base)

NAdd(a, b) ==
    IF IsSmall(a) /\ IsSmall(b) THEN NatOf(Small(a) + Small(b))
    ELSE NAddFrom(a, b, 1, 0)

\* a - b for a >= b
RECURSIVE NSubFrom(_, _, _, _)
NSubFrom(a, b, i, borrow) ==
    IF i > Len(a) THEN <<>>
    ELSE LET t == a[i] - DigitAt(b, i) - borrow
         IN  IF t < 0 THEN <<t + Base>> \o NSubFrom(a, b, i + 1, 1)
             ELSE <<t>> \o NSubFrom(a, b, i + 1, 0)

NSub(a, b) ==
    IF IsSmall(a) THEN NatOf(Small(a) - Small(b))
    ELSE Strip(NSubFrom(a, b, 1, 0))

\* a * k for one digit k
RECURSIVE NMulDigitFrom(_, _, _, _)
NMulDigitFrom(a, k, i, carry) ==
    IF i > Len(a) THEN (IF carry = 0 THEN <<>> ELSE <<carry>>)
    ELSE LET t == a[i] * k + carry
         IN  <<t % Base>> \o NMulDigitFrom(a, k, i + 1, t \div Base)

NMulDigit(a, k) == IF k = 0 THEN <<>> ELSE NMulDigitFrom(a, k, 1, 0)

\* a * Base
NShift(a) == IF a = <<>> THEN <<>> ELSE <<0>> \o a

RECURSIVE NMul(_, _)
NMul(a, b) ==
    IF a = <<>> \/ b = <<>> THEN <<>>
    ELSE IF Len(a) + Len(b) <= 3 THEN NatOf(Small(a) * Small(b))
    ELSE NAdd(NMulDigit(a, b[1]), NShift(NMul(a, Tail(b))))

\* whether b * q <= r
Fits(b, r, q) == NCmp(NMulDigit(b, q), r) <= 0

\* the largest digit of lo..hi that fits, lo fitting
QuotientIn(b, r, lo, hi) == lo + Cardinality({k \in (lo + 1)..hi : Fits(b, r, k)})

QuotientBetween(b, r, num, top) ==
    QuotientIn(b, r, num \div (top + 1),
               IF num < top * Base THEN num \div top ELSE Base - 1)

\* the two highest digits of b, from digit i up, and the digits of r above
\* them bound the quotient digit from both sides
QuotientAt(b, r, i) ==
    QuotientBetween(b, r, Digits3(r, i), DigitAt(b, i) + Base * DigitAt(b, i + 1))

\* the largest digit q with b * q <= r, for r < b * Base
QuotientDigit(b, r) ==
    IF Len(b) <= 2 THEN Small(r) \div Small(b) ELSE QuotientAt(b, r, Len(b) - 1)

\* the quotient digit q put under the digits of rest, <<digits, remainder>>
WithDigit(rest, q) == <<Append(rest[1], q), rest[2]>>

\* long division of the digits i..1 of a by b, with r the remainder so far:
\* <<quotient digits, remainder>>
RECURSIVE NDivFrom(_, _, _, _)
RECURSIVE NDivStep(_, _, _, _, _)
NDivStep(a, b, i, cur, q) ==
    IF q = 0 THEN WithDigit(NDivFrom(a, b, i - 1, cur), 0)
    ELSE WithDigit(NDivFrom(a, b, i - 1, NSub(cur, NMulDigit(b, q))), q)

NDivCur(a, b, i, cur) == NDivStep(a, b, i, cur, QuotientDigit(b, cur))

NDivFrom(a, b, i, r) ==
    IF i = 0 THEN << <<>>, r >>
    ELSE NDivCur(a, b, i, Strip(<<a[i]>> \o r))

\* <<digits, remainder>> with the leading zeros of the digits dropped
Stripped(qr) == <<Strip(qr[1]), qr[2]>>

\* <<a div b, a mod b>> for b # 0
NDivMod(a, b) ==
    IF IsSmall(a) /\ IsSmall(b)
    THEN <<NatOf(Small(a) \div Small(b)), NatOf(Small(a) % Small(b))>>
    ELSE Stripped(NDivFrom(a, b, Len(a), <<>>))

\* Euclid's algorithm
RECURSIVE NGcd(_, _)
NGcd(a, b) ==
    IF b = <<>> THEN a
    ELSE IF IsSmall(a) /\ IsSmall(b) THEN NatOf(Gcd(Small(a), Small(b)))
    ELSE NGcd(b, NDivMod(a, b)[2])

\* the fraction of sign s whose numerator and denominator are parts
Signed(s, parts) == <<s, parts[1], parts[2]>>

\* numerator n and denominator d divided by their common divisor g
Lowest(s, n, d, g) ==
    IF g = <<1>> THEN <<s, n, d>>
    ELSE Signed(s, [k \in 1..2 |-> NDivMod(<<n, d>>[k], g)[1]])

\* the fraction of sign s, numerator n and denominator d # 0, in lowest terms
Reduce(s, n, d) ==
    IF n = <<>> THEN <<0, <<>>, <<1>>>> ELSE Lowest(s, n, d, NGcd(n, d))

\* n / d for integers n and d # 0, with g their greatest common divisor
FracBy(n, d, g) ==
    <<IF n = 0 THEN 0 ELSE IF (n < 0) = (d < 0) THEN 1 ELSE -1,
      NatOf(Abs(n) \div g), NatOf(Abs(d) \div g)>>

\* n / d for integers n and d # 0
Frac(n, d) == FracBy(n, d, Gcd(n, d))

Whole(k) == Frac(k, 1)
Hundredths(k) == Frac(k, 100)

Neg(x) == <<-x[1], x[2], x[3]>>

\* <<sign, magnitude>> of sx * a + sy * b for signs sx, sy # 0
SignedSum(sx, sy, a, b) ==
    IF sx = sy THEN <<sx, NAdd(a, b)>>
    ELSE IF NCmp(a, b) >= 0 THEN <<sx, NSub(a, b)>>
    ELSE <<sy, NSub(b, a)>>

ReduceSum(sum, d) == Reduce(sum[1], sum[2], d)

\* the three products of the cross multiplication of x and y
Cross(x, y) == [k \in 1..3 |-> NMul(<<x[2], y[2], x[3]>>[k], <<y[3], x[3], y[3]>>[k])]

AddCross(sx, sy, c) == ReduceSum(SignedSum(sx, sy, c[1], c[2]), c[3])

Add(x, y) ==
    IF x[1] = 0 THEN y
    ELSE IF y[1] = 0 THEN x
    ELSE AddCross(x[1], y[1], Cross(x, y))

Sub(x, y) == Add(x, Neg(y))

\* the products of the numerators and of the denominators of x and y
Products(x, y) == [k \in 2..3 |-> NMul(x[k], y[k])]

ReduceProduct(s, p) == Reduce(s, p[2], p[3])

Mul(x, y) ==
    IF x[1] = 0 \/ y[1] = 0 THEN <<0, <<>>, <<1>>>>
    ELSE ReduceProduct(x[1] * y[1], Products(x, y))

\* x / y for y # 0
Div(x, y) == Mul(x, <<y[1], y[3], y[2]>>)

\* x <= y
CrossLe(sx, c) == IF sx = 1 THEN NCmp(c[1], c[2]) <= 0 ELSE NCmp(c[1], c[2]) >= 0

Le(x, y) ==
    IF x[1] # y[1] THEN x[1] < y[1]
    ELSE IF x[1] = 0 THEN TRUE
    ELSE CrossLe(x[1], Cross(x, y))

Lt(x, y) == ~Le(y, x)

\* (x * 100.0).round() / 100.0: the nearest multiple of 1/100, halves away
\* from zero
Round2(x) ==
    IF x[1] = 0 THEN x
    ELSE Reduce(x[1],
                NDivMod(NAdd(NMul(NatOf(200), x[2]), x[3]),
                        NMul(NatOf(2), x[3]))[1],
                NatOf(100))

\* f64::clamp
Clamp(x, lo, hi) == IF Lt(x, lo) THEN lo ELSE IF Lt(hi, x) THEN hi ELSE x

\* a fraction as the model writes it
IsFrac(x) ==
    /\ x[1] \in {-1, 0, 1}
    /\ \A i \in 1..Len(x[2]) : x[2][i] \in 0..(Base - 1)
    /\ \A i \in 1..Len(x[3]) : x[3][i] \in 0..(Base - 1)
    /\ x[3] # <<>>
    /\ NGcd(x[2], x[3]) = <<1>> \/ x[1] = 0

----------------------------------------------------------------------------
(* The quantile tables and the grade thresholds, domain/quantiles.rs.  A   *)
(* Rust slice index i is index i + 1 here.                                  *)

DOM_QUANTILES ==
    <<
       Whole(0), Whole(47), Whole(75), Whole(159), Whole(233),
       Whole(298), Whole(358), Whole(417), Whole(476), Whole(537),
       Whole(603), Whole(674), Whole(753), Whole(843), Whole(949),
       Whole(1076), Whole(1237), Whole(1459), Whole(1801), Whole(2479),
       Whole(594601) >>

REQUEST_QUANTILES ==
    <<
       Whole(0), Whole(2), Whole(15), Whole(25), Whole(34),
       Whole(42), Whole(49), Whole(56), Whole(63), Whole(70),
       Whole(78), Whole(86), Whole(95), Whole(105), Whole(117),
       Whole(130), Whole(147), Whole(170), Whole(205), Whole(281),
       Whole(3920) >>

SIZE_QUANTILES ==
    <<
       Hundredths(0), Hundredths(137), Hundredths(14470),
       Hundredths(31953), Hundredths(47946), Hundredths(63197),
       Hundredths(78338), Hundredths(93791), Hundredths(109862),
       Hundredths(126547), Hundredths(144832), Hundredths(164827),
       Hundredths(187608), Hundredths(214206), Hundredths(246537),
       Hundredths(286631), Hundredths(340159), Hundredths(415573),
       Hundredths(540008), Hundredths(803754), Hundredths(22321226) >>

\* the two best grades change places
GRADE_THRESHOLDS_Swapped ==
    << <<Whole(81), "B">>, <<Whole(71), "A">>, <<Whole(61), "C">>, <<Whole(51), "D">>,
       <<Whole(41), "E">>, <<Whole(31), "F">>, <<Whole(0), "G">> >>

GRADE_THRESHOLDS ==
    << <<Whole(81), "A">>, <<Whole(71), "B">>, <<Whole(61), "C">>, <<Whole(51), "D">>,
       <<Whole(41), "E">>, <<Whole(31), "F">>, <<Whole(0), "G">> >>

----------------------------------------------------------------------------
(* EcoIndexCalculator, calculator/ecoindex.rs *)

\* PageMetrics::new(dom_elements, requests, size_kb)
PageMetrics_new(dom_elements, requests, size_kb) ==
    [dom_elements |-> dom_elements, requests |-> requests, size_kb |-> size_kb]

\* the interpolation takes the upper breakpoint's index as its whole part
RECURSIVE QuantileLoop_OffByOne(_, _, _)
QuantileLoop_OffByOne(value, quantiles, i) ==
    IF i > Len(quantiles) - 1 THEN Whole(Len(quantiles) - 1)
    ELSE IF Lt(value, quantiles[i + 1])
    THEN LET lower == quantiles[i]
             upper == quantiles[i + 1]
         IN  Add(Whole(i), Div(Sub(value, lower), Sub(upper, lower)))
    ELSE QuantileLoop_OffByOne(value, quantiles, i + 1)

\* the interpolation measures the distance to the upper breakpoint
RECURSIVE QuantileLoop_Descending(_, _, _)
QuantileLoop_Descending(value, quantiles, i) ==
    IF i > Len(quantiles) - 1 THEN Whole(Len(quantiles) - 1)
    ELSE IF Lt(value, quantiles[i + 1])
    THEN LET lower == quantiles[i]
             upper == quantiles[i + 1]
         IN  Add(Whole(i - 1), Div(Sub(upper, value), Sub(upper, lower)))
    ELSE QuantileLoop_Descending(value, quantiles, i + 1)

\* `for i in 1..quantiles.len()` of get_quantile_position, from index i on
RECURSIVE QuantileLoop(_, _, _)
QuantileLoop(value, quantiles, i) ==
    IF i > Len(quantiles) - 1 THEN Whole(Len(quantiles) - 1)
    ELSE IF Lt(value, quantiles[i + 1])
    THEN LET lower == quantiles[i]
             upper == quantiles[i + 1]
         IN  Add(Whole(i - 1), Div(Sub(value, lower), Sub(upper, lower)))
    ELSE QuantileLoop(value, quantiles, i + 1)

get_quantile_position(value, quantiles) ==
    IF Le(value, quantiles[1]) THEN Whole(0)
    ELSE IF Le(quantiles[Len(quantiles)], value) THEN Whole(Len(quantiles) - 1)
    ELSE QuantileLoop(value, quantiles, 1)

\* the weighted sum is not taken off 100
compute_score_Rising(metrics) ==
    LET q_dom == get_quantile_position(Whole(metrics.dom_elements), DOM_QUANTILES)
        q_req == get_quantile_position(Whole(metrics.requests), REQUEST_QUANTILES)
        q_size == get_quantile_position(metrics.size_kb, SIZE_QUANTILES)
        weighted == Add(Mul(Whole(3), q_dom), Add(Mul(Whole(2), q_req), q_size))
        score == Div(Mul(Whole(5), weighted), Whole(6))
    IN  Clamp(score, Whole(0), Whole(100))

\* the three positions weigh the same
compute_score_EqualWeights(metrics) ==
    LET q_dom == get_quantile_position(Whole(metrics.dom_elements), DOM_QUANTILES)
        q_req == get_quantile_position(Whole(metrics.requests), REQUEST_QUANTILES)
        q_size == get_quantile_position(metrics.size_kb, SIZE_QUANTILES)
        weighted == Add(Mul(Whole(2), q_dom), Add(Mul(Whole(2), q_req), q_size))
        score == Sub(Whole(100), Div(Mul(Whole(5), weighted), Whole(6)))
    IN  Clamp(score, Whole(0), Whole(100))

\* the weights of the DOM and of the requests change places
compute_score_SwappedWeights(metrics) ==
    LET q_dom == get_quantile_position(Whole(metrics.dom_elements), DOM_QUANTILES)
        q_req == get_quantile_position(Whole(metrics.requests), REQUEST_QUANTILES)
        q_size == get_quantile_position(metrics.size_kb, SIZE_QUANTILES)
        weighted == Add(Mul(Whole(3), q_req), Add(Mul(Whole(2), q_dom), q_size))
        score == Sub(Whole(100), Div(Mul(Whole(5), weighted), Whole(6)))
    IN  Clamp(score, Whole(0), Whole(100))

compute_score(metrics) ==
    LET q_dom == get_quantile_position(Whole(metrics.dom_elements), DOM_QUANTILES)
        q_req == get_quantile_position(Whole(metrics.requests), REQUEST_QUANTILES)
        q_size == get_quantile_position(metrics.size_kb, SIZE_QUANTILES)
        weighted == Add(Mul(Whole(3), q_dom), Add(Mul(Whole(2), q_req), q_size))
        score == Sub(Whole(100), Div(Mul(Whole(5), weighted), Whole(6)))
    IN  Clamp(score, Whole(0), Whole(100))

\* a score has to exceed a threshold to get its grade
RECURSIVE GradeLoop_Strict(_, _)
GradeLoop_Strict(score, k) ==
    IF k > Len(GRADE_THRESHOLDS) THEN "G"
    ELSE IF Lt(GRADE_THRESHOLDS[k][1], score) THEN GRADE_THRESHOLDS[k][2]
    ELSE GradeLoop_Strict(score, k + 1)

\* `for (threshold, grade) in GRADE_THRESHOLDS`, from entry k on
RECURSIVE GradeLoop(_, _)
GradeLoop(score, k) ==
    IF k > Len(GRADE_THRESHOLDS) THEN "G"
    ELSE IF Le(GRADE_THRESHOLDS[k][1], score) THEN GRADE_THRESHOLDS[k][2]
    ELSE GradeLoop(score, k + 1)

get_grade(score) == GradeLoop(score, 1)

\* the factor 2 of the score's complement is left out
compute_ghg_Unscaled(score) ==
    Add(Whole(2), Div(Sub(Whole(100), score), Whole(100)))

compute_ghg(score) ==
    Add(Whole(2), Div(Mul(Whole(2), Sub(Whole(100), score)), Whole(100)))

\* the estimate grows with the score
compute_water_Rising(score) ==
    Add(Whole(3), Div(Mul(Whole(3), score), Whole(100)))

compute_water(score) ==
    Add(Whole(3), Div(Mul(Whole(3), Sub(Whole(100), score)), Whole(100)))

\* EcoIndexGrade::from_score of the domain type
EcoIndexGrade_from_score(score) ==
    IF Le(Whole(80), score) THEN "A"
    ELSE IF Le(Whole(70), score) THEN "B"
    ELSE IF Le(Whole(55), score) THEN "C"
    ELSE IF Le(Whole(40), score) THEN "D"
    ELSE IF Le(Whole(25), score) THEN "E"
    ELSE IF Le(Whole(10), score) THEN "F"
    ELSE "G"

\* EcoIndexResult::new(score, grade, ghg, water, metrics, url)
EcoIndexResult_new(score, grade, ghg, water, metrics, url) ==
    [score |-> score, grade |-> grade, ghg |-> ghg, water |-> water,
     metrics |-> metrics, url |-> url]

\* the result is built with the water estimate for the ghg and the ghg
\* estimate for the water
compute_from_score_Transposed(score, metrics, url) ==
    EcoIndexResult_new(score, get_grade(score), compute_water(score),
                       compute_ghg(score), metrics, url)

\* the grade, the estimates and the result of compute, for the score computed
compute_from_score(score, metrics, url) ==
    EcoIndexResult_new(score, get_grade(score), compute_ghg(score),
                       compute_water(score), metrics, url)

compute(metrics, url) == compute_from_score(compute_score(metrics), metrics, url)

\* the tail of collect: size_kb = size_bytes as f64 / 1024.0 and
\* PageMetrics::new(dom_count, requests, size_kb)
CollectedMetrics(dom_count, requests, size_bytes) ==
    PageMetrics_new(dom_count, requests, Frac(size_bytes, 1024))

----------------------------------------------------------------------------
(* extract_json *)

\* output.find('{'): index of the first '{', 0 when there is none
RECURSIVE Find(_, _)
Find(s, i) ==
    IF i > Len(s) THEN 0
    ELSE IF s[i] = "{" THEN i
    ELSE Find(s, i + 1)

\* the loop with braces counted inside strings too
RECURSIVE Scan_BracesInStrings(_, _, _, _, _, _)
Scan_BracesInStrings(s, start, i, depth, in_string, escape_next) ==
    IF i > Len(s) THEN None
    ELSE IF s[i] = "{" THEN
        Scan_BracesInStrings(s, start, i + 1, depth + 1, in_string, FALSE)
    ELSE IF s[i] = "}" THEN
        IF depth - 1 = 0 THEN Some(SubSeq(s, start, i))
        ELSE Scan_BracesInStrings(s, start, i + 1, depth - 1, in_string, FALSE)
    ELSE Scan_BracesInStrings(s, start, i + 1, depth, in_string, FALSE)

\* the loop with every double quote toggling the string state, escaped or not
RECURSIVE Scan_NoEscape(_, _, _, _, _, _)
Scan_NoEscape(s, start, i, depth, in_string, escape_next) ==
    IF i > Len(s) THEN None
    ELSE IF s[i] = "\"" THEN Scan_NoEscape(s, start, i + 1, depth, ~in_string, FALSE)
    ELSE IF s[i] = "{" /\ ~in_string THEN
        Scan_NoEscape(s, start, i + 1, depth + 1, in_string, FALSE)
    ELSE IF s[i] = "}" /\ ~in_string THEN
        IF depth - 1 = 0 THEN Some(SubSeq(s, start, i))
        ELSE Scan_NoEscape(s, start, i + 1, depth - 1, in_string, FALSE)
    ELSE Scan_NoEscape(s, start, i + 1, depth, in_string, FALSE)

\* the for loop of extract_json, from position i with the loop's locals
RECURSIVE Scan(_, _, _, _, _, _)
Scan(s, start, i, depth, in_string, escape_next) ==
    IF i > Len(s) THEN None
    ELSE IF escape_next THEN Scan(s, start, i + 1, depth, in_string, FALSE)
    ELSE IF s[i] = "\\" /\ in_string THEN Scan(s, start, i + 1, depth, in_string, TRUE)
    ELSE IF s[i] = "\"" THEN Scan(s, start, i + 1, depth, ~in_string, FALSE)
    ELSE IF s[i] = "{" /\ ~in_string THEN Scan(s, start, i + 1, depth + 1, in_string, FALSE)
    ELSE IF s[i] = "}" /\ ~in_string THEN
        IF depth - 1 = 0 THEN Some(SubSeq(s, start, i))
        ELSE Scan(s, start, i + 1, depth - 1, in_string, FALSE)
    ELSE Scan(s, start, i + 1, depth, in_string, FALSE)

extract_json(s) ==
    LET start == Find(s, 1)
    IN  IF start = 0 THEN None ELSE Scan(s, start, start, 0, FALSE, FALSE)

----------------------------------------------------------------------------
(* Decoding and parsing of the sidecar's output *)

\* String::from_utf8_lossy: invalid bytes become U+FFFD
from_utf8_lossy(bytes) ==
    [i \in 1..Len(bytes) |-> IF bytes[i] = "0xFF" THEN "U+FFFD" ELSE bytes[i]]

IsWs(c) == c \in {" ", "\n", "\t", "\r"}

RECURSIVE TrimStart(_)
TrimStart(s) == IF s # <<>> /\ IsWs(Head(s)) THEN TrimStart(Tail(s)) ELSE s

RECURSIVE TrimEnd(_)
TrimEnd(s) ==
    IF s # <<>> /\ IsWs(s[Len(s)]) THEN TrimEnd(SubSeq(s, 1, Len(s) - 1)) ELSE s

\* serde_json reads one JSON value and allows only whitespace around it.  The
\* JSON objects of the model are "{" member tokens "}", no member twice.
JsonMembers(s) ==
    LET t == TrimEnd(TrimStart(s))
        n == Len(t)
        inner == 2..(n - 1)
    IN  IF /\ n >= 2
           /\ t[1] = "{"
           /\ t[n] = "}"
           /\ \A k \in inner : t[k] \in {"E", "S"}
           /\ \A k, l \in inner : t[k] = t[l] => k = l
        THEN Some({t[k] : k \in 2..(n - 1)})
        ELSE None

\* the code and message of the error payload "E"
PayloadCode == "NAVIGATION_FAILED"
PayloadMessage == "page unreachable"

\* serde_json::from_str::<SidecarErrorResponse>: error, code and message are
\* required, details is optional, unknown fields are ignored
ParseErrorResponse(s) ==
    LET m == JsonMembers(s)
    IN  IF m # None /\ "E" \in m[1]
        THEN Some([code |-> PayloadCode, message |-> PayloadMessage])
        ELSE None

\* the Error variant with code and message exchanged
ParseSidecarOutput_Swapped(s) ==
    LET m == JsonMembers(s)
    IN  IF m = None THEN None
        ELSE IF "S" \in m[1] THEN Some([variant |-> "Success"])
        ELSE IF "E" \in m[1]
        THEN Some([variant |-> "Error", code |-> PayloadMessage, message |-> PayloadCode])
        ELSE None

\* the Error variant is tried first
ParseSidecarOutput_ErrorFirst(s) ==
    LET m == JsonMembers(s)
    IN  IF m = None THEN None
        ELSE IF "E" \in m[1]
        THEN Some([variant |-> "Error", code |-> PayloadCode, message |-> PayloadMessage])
        ELSE IF "S" \in m[1] THEN Some([variant |-> "Success"])
        ELSE None

\* serde_json::from_str::<SidecarOutput>: untagged, Success is tried first
ParseSidecarOutput(s) ==
    LET m == JsonMembers(s)
    IN  IF m = None THEN None
        ELSE IF "S" \in m[1] THEN Some([variant |-> "Success"])
        ELSE IF "E" \in m[1]
        THEN Some([variant |-> "Error", code |-> PayloadCode, message |-> PayloadMessage])
        ELSE None

\* the snapshot without the stdout buffer
Snapshot_StderrOnly(stderr, stdout) == <<"stderr: ">> \o stderr

\* format!("stderr: {stderr}, stdout: {stdout}")
Snapshot(stderr, stdout) == <<"stderr: ">> \o stderr \o <<", stdout: ">> \o stdout

\* the audit part of a payload with nothing optional and empty lists
BareBlocks ==
    [url |-> "https://example.com",
     resourceBreakdown |-> [scripts |-> 0, stylesheets |-> 0, images |-> 0,
                            fonts |-> 0, xhr |-> 0, other |-> 0],
     requestDetails |-> <<>>, cacheAnalysis |-> <<>>,
     performance |-> 50, accessibility |-> 40, bestPractices |-> 30, seo |-> 20,
     fcp |-> 11, lcp |-> 12, tbt |-> 13, cls |-> 14, si |-> 15, tti |-> 16,
     accessibilityIssues |-> <<>>, htmlReportPath |-> None, ttfb |-> None,
     coverage |-> None, compression |-> None, imageFormats |-> None]

\* the audit part of a payload with every block present
RichBlocks ==
    [url |-> "https://example.org/page",
     resourceBreakdown |-> [scripts |-> 3, stylesheets |-> 2, images |-> 7,
                            fonts |-> 1, xhr |-> 4, other |-> 5],
     requestDetails |-> <<"request 1", "request 2">>,
     cacheAnalysis |-> <<"cache item">>,
     performance |-> 100, accessibility |-> 90, bestPractices |-> 80, seo |-> 70,
     fcp |-> 21, lcp |-> 22, tbt |-> 23, cls |-> 24, si |-> 25, tti |-> 26,
     accessibilityIssues |-> <<"issue 1", "issue 2">>,
     htmlReportPath |-> Some("/tmp/report.html"), ttfb |-> Some("ttfb block"),
     coverage |-> Some("coverage block"),
     compression |-> Some("compression block"),
     imageFormats |-> Some("image-format block")]

\* RequestAnalytics::compute(&raw.requests): the four statistics of the list
RequestAnalytics_compute(requests) ==
    [domain_stats |-> <<"domains", requests>>,
     protocol_stats |-> <<"protocols", requests>>,
     cache_stats |-> <<"cache", requests>>,
     duplicate_stats |-> <<"duplicates", requests>>]

\* the analytics are attached to every result
Audits_AlwaysAnalytics(payload) ==
    [url |-> payload.url,
     resource_breakdown |-> payload.resourceBreakdown,
     performance_score |-> payload.performance,
     first_contentful_paint |-> payload.fcp,
     largest_contentful_paint |-> payload.lcp,
     total_blocking_time |-> payload.tbt,
     cumulative_layout_shift |-> payload.cls,
     speed_index |-> payload.si,
     time_to_interactive |-> payload.tti,
     accessibility_score |-> payload.accessibility,
     issues |-> payload.accessibilityIssues,
     best_practices_score |-> payload.bestPractices,
     seo_score |-> payload.seo,
     request_details |-> payload.requestDetails,
     cache_analysis |-> payload.cacheAnalysis,
     html_report_path |-> payload.htmlReportPath,
     analytics |-> Some(RequestAnalytics_compute(payload.requestDetails)),
     ttfb |-> payload.ttfb,
     coverage |-> payload.coverage,
     compression |-> payload.compression,
     image_formats |-> payload.imageFormats]

\* the fields of the LighthouseResult outside the EcoIndex numbers (lines
\* 525-567); the timestamp is left out
Audits(payload) ==
    [url |-> payload.url,
     resource_breakdown |-> payload.resourceBreakdown,
     performance_score |-> payload.performance,
     first_contentful_paint |-> payload.fcp,
     largest_contentful_paint |-> payload.lcp,
     total_blocking_time |-> payload.tbt,
     cumulative_layout_shift |-> payload.cls,
     speed_index |-> payload.si,
     time_to_interactive |-> payload.tti,
     accessibility_score |-> payload.accessibility,
     issues |-> payload.accessibilityIssues,
     best_practices_score |-> payload.bestPractices,
     seo_score |-> payload.seo,
     request_details |-> payload.requestDetails,
     cache_analysis |-> payload.cacheAnalysis,
     html_report_path |-> payload.htmlReportPath,
     analytics |-> IF payload.requestDetails = <<>> THEN None
                   ELSE Some(RequestAnalytics_compute(payload.requestDetails)),
     ttfb |-> payload.ttfb,
     coverage |-> payload.coverage,
     compression |-> payload.compression,
     image_formats |-> payload.imageFormats]

\* the raw metrics and the audit part of the success payload "S"
SuccessPayload ==
    [domElements |-> 233, requests |-> 42, totalTransferSize |-> 1101]
    @@ RichBlocks

\* the fields of the LighthouseResult for the score computed: the rounded
\* EcoIndex numbers, the counters of the payload and its other blocks
ScoredFields(payload, size_kb, score) ==
    [kind |-> "Ok",
     score |-> Round2(score),
     grade |-> get_grade(score),
     ghg |-> Round2(compute_ghg(score)),
     water |-> Round2(compute_water(score)),
     dom_elements |-> payload.domElements,
     requests |-> payload.requests,
     size_kb |-> Round2(size_kb)] @@ Audits(payload)

SuccessFields(payload, size_kb) ==
    ScoredFields(payload, size_kb,
                 compute_score(PageMetrics_new(payload.domElements,
                                               payload.requests, size_kb)))

\* the transfer size is divided by 1024
SuccessResult_Kibibytes(payload) ==
    SuccessFields(payload, Frac(payload.totalTransferSize, 1024))

\* the arm SidecarOutput::Success of run_lighthouse_analysis: the EcoIndex
\* numbers and the other fields of the LighthouseResult
SuccessResult(payload) ==
    SuccessFields(payload, Frac(payload.totalTransferSize, 1000))

\* what a run returns for the success payload "S"
SuccessOutcome == SuccessResult(SuccessPayload)

\* lines 475-573 of run_lighthouse_analysis: the value returned once the slot
\* is cleared
Outcome(code, out_bytes, err_bytes) ==
    LET stdout == from_utf8_lossy(out_bytes)
        stderr == from_utf8_lossy(err_bytes)
    IN  IF code # Some(0) THEN
            LET error_response == ParseErrorResponse(stdout)
            IN  IF error_response # None
                THEN [kind |-> "AnalysisFailed",
                      code |-> error_response[1].code,
                      message |-> error_response[1].message]
                ELSE [kind |-> "ProcessFailed",
                      code |-> IF code = None THEN -1 ELSE code[1],
                      stderr |-> Snapshot(stderr, stdout)]
        ELSE
            LET json_str == extract_json(stdout)
            IN  IF json_str = None
                THEN [kind |-> "ParseError", why |-> "No valid JSON found in output",
                      text |-> stdout]
                ELSE LET parsed == ParseSidecarOutput(json_str[1])
                     IN  IF parsed = None
                         THEN [kind |-> "ParseError", why |-> "JSON parse error",
                               text |-> json_str[1]]
                         ELSE IF parsed[1].variant = "Success"
                         THEN SuccessOutcome
                         ELSE [kind |-> "AnalysisFailed",
                               code |-> parsed[1].code,
                               message |-> parsed[1].message]

----------------------------------------------------------------------------
(* State *)

ChunkCount(r) ==
    Cardinality({i \in 1..Len(events[r]) :
                    events[r][i].type \in {"Stdout", "Stderr", "Error"}})

RECURSIVE Delivered(_)
Delivered(S) ==
    IF S = {} THEN 0
    ELSE LET r == CHOOSE x \in S : TRUE
         IN  ChunkCount(r) + Delivered(S \ {r})

RunInit ==
    /\ pc = [r \in Runs |-> "Idle"]
    /\ child = [r \in Runs |-> "none"]
    /\ events = [r \in Runs |-> <<>>]
    /\ stdout_data = [r \in Runs |-> <<>>]
    /\ stderr_data = [r \in Runs |-> <<>>]
    /\ exit_code = [r \in Runs |-> None]
    /\ result = [r \in Runs |-> Pending]

\* AnalysisState::default(); the host may deliver ExitRequested any number of times
HostInit ==
    /\ current_pid = None
    /\ signals = <<>>

\* the harnesses of the calculator at rest
CalcIdle ==
    /\ q_in = None
    /\ q_out = None
    /\ raw = None
    /\ audit = None
    /\ eco = None

\* collect has been called and has not run yet: no page, no counter task,
\* both counters at 0 (collector.rs lines 51-55)
CollectInit ==
    /\ c_pc = "new_page"
    /\ page = "none"
    /\ task = [t \in Tasks |->
                  [state |-> "none", aborted |-> FALSE, subscribed |-> FALSE,
                   queue |-> <<>>, fired |-> 0, held |-> None, taken |-> 0,
                   taken_at_abort |-> None]]
    /\ counter = [t \in Tasks |-> 0]
    /\ c_local = [navigating |-> FALSE, dom_count |-> None, html_size |-> None,
                  requests |-> None, size_bytes |-> None]
    /\ c_trace = <<>>
    /\ c_result = Pending

HarnessInit ==
    /\ input = <<>>
    /\ called = FALSE
    /\ output = None

Init ==
    /\ RunInit
    /\ HostInit
    /\ HarnessInit
    /\ CalcIdle
    /\ CollectInit

----------------------------------------------------------------------------
(* run_lighthouse_analysis, one action per stretch of code between awaits *)

\* a failed spawn that empties the slot on its way out
SpawnFails_ClearsSlot(r) ==
    /\ pc[r] = "Idle"
    /\ pc' = [pc EXCEPT ![r] = "Failed"]
    /\ result' = [result EXCEPT ![r] = [kind |-> "SpawnFailed"]]
    /\ current_pid' = None
    /\ UNCHANGED <<child, events, stdout_data, stderr_data, exit_code,
                   hookVars, harnessVars, calcVars, collectVars>>

\* lines 416-445, when the script is missing or the sidecar cannot be spawned
SpawnFails(r) ==
    /\ pc[r] = "Idle"
    /\ pc' = [pc EXCEPT ![r] = "Failed"]
    /\ result' = [result EXCEPT ![r] = [kind |-> "SpawnFailed"]]
    /\ UNCHANGED <<child, events, stdout_data, stderr_data, exit_code,
                   current_pid, hookVars, harnessVars, calcVars,
                   collectVars>>

\* lines 416-448, when spawn() returns the child
Spawn(r) ==
    /\ pc[r] = "Idle"
    /\ pc' = [pc EXCEPT ![r] = "Spawning"]
    /\ child' = [child EXCEPT ![r] = "running"]
    /\ UNCHANGED <<events, stdout_data, stderr_data, exit_code, result,
                   current_pid, hookVars, harnessVars, calcVars,
                   collectVars>>

\* the event loop entered with the pid not recorded
StorePid_Skipped(r) ==
    /\ pc[r] = "Spawning"
    /\ pc' = [pc EXCEPT ![r] = "Running"]
    /\ UNCHANGED <<child, events, stdout_data, stderr_data, exit_code, result,
                   current_pid, hookVars, harnessVars, calcVars,
                   collectVars>>

\* lines 449-456: *state.current_pid.lock().await = Some(pid); try_state finds
\* the AnalysisState that build() manages (app.rs line 63)
StorePid(r) ==
    /\ pc[r] = "Spawning"
    /\ current_pid' = Some(PidOf(r))
    /\ pc' = [pc EXCEPT ![r] = "Running"]
    /\ UNCHANGED <<child, events, stdout_data, stderr_data, exit_code, result,
                   hookVars, harnessVars, calcVars,
                   collectVars>>

\* a stdout chunk put in front of the buffer
RecvStdout_Prepend(r) ==
    /\ pc[r] = "Running"
    /\ Delivered(Runs) < MaxChunks
    /\ \E data \in StdoutChunks :
         /\ stdout_data' = [stdout_data EXCEPT ![r] = data \o @]
         /\ events' = [events EXCEPT ![r] = Append(@, Event("Stdout", data, None))]
    /\ UNCHANGED <<pc, child, stderr_data, exit_code, result,
                   current_pid, hookVars, harnessVars, calcVars,
                   collectVars>>

\* line 460: CommandEvent::Stdout(data)
RecvStdout(r) ==
    /\ pc[r] = "Running"
    /\ Delivered(Runs) < MaxChunks
    /\ \E data \in StdoutChunks :
         /\ stdout_data' = [stdout_data EXCEPT ![r] = @ \o data]
         /\ events' = [events EXCEPT ![r] = Append(@, Event("Stdout", data, None))]
    /\ UNCHANGED <<pc, child, stderr_data, exit_code, result,
                   current_pid, hookVars, harnessVars, calcVars,
                   collectVars>>

\* line 461: CommandEvent::Stderr(data)
RecvStderr(r) ==
    /\ pc[r] = "Running"
    /\ Delivered(Runs) < MaxChunks
    /\ \E data \in StderrChunks :
         /\ stderr_data' = [stderr_data EXCEPT ![r] = @ \o data]
         /\ events' = [events EXCEPT ![r] = Append(@, Event("Stderr", data, None))]
    /\ UNCHANGED <<pc, child, stdout_data, exit_code, result,
                   current_pid, hookVars, harnessVars, calcVars,
                   collectVars>>

\* line 466: any other event (CommandEvent::Error) is dropped
RecvOther(r) ==
    /\ pc[r] = "Running"
    /\ Delivered(Runs) < MaxChunks
    /\ events' = [events EXCEPT ![r] = Append(@, Event("Error", <<>>, None))]
    /\ UNCHANGED <<pc, child, stdout_data, stderr_data, exit_code, result,
                   current_pid, hookVars, harnessVars, calcVars,
                   collectVars>>

\* lines 462-465: CommandEvent::Terminated(payload), sent once the child exited
RecvTerminated(r) ==
    /\ pc[r] = "Running"
    /\ child[r] = "exited"
    /\ \E code \in ExitCodes :
         /\ exit_code' = [exit_code EXCEPT ![r] = code]
         /\ events' = [events EXCEPT ![r] = Append(@, Event("Terminated", <<>>, code))]
    /\ pc' = [pc EXCEPT ![r] = "Terminated"]
    /\ UNCHANGED <<child, stdout_data, stderr_data, result,
                   current_pid, hookVars, harnessVars, calcVars,
                   collectVars>>

\* line 458: rx.recv() returns None, the channel closed with no Terminated
\* event (the plugin could not wait for the child)
RecvClosed(r) ==
    /\ pc[r] = "Running"
    /\ events' = [events EXCEPT ![r] = Append(@, Event("Closed", <<>>, None))]
    /\ pc' = [pc EXCEPT ![r] = "Terminated"]
    /\ UNCHANGED <<child, stdout_data, stderr_data, exit_code, result,
                   current_pid, hookVars, harnessVars, calcVars,
                   collectVars>>

\* a clear step that empties the slot only when no other run is in its loop
ClearPid_Polite(r) ==
    /\ pc[r] = "Terminated"
    /\ current_pid' = IF \E o \in Runs \ {r} : pc[o] = "Running"
                      THEN current_pid ELSE None
    /\ pc' = [pc EXCEPT ![r] = "Evaluating"]
    /\ UNCHANGED <<child, events, stdout_data, stderr_data, exit_code, result,
                   hookVars, harnessVars, calcVars, collectVars>>

\* lines 470-473: *state.current_pid.lock().await = None
ClearPid(r) ==
    /\ pc[r] = "Terminated"
    /\ current_pid' = None
    /\ pc' = [pc EXCEPT ![r] = "Evaluating"]
    /\ UNCHANGED <<child, events, stdout_data, stderr_data, exit_code, result,
                   hookVars, harnessVars, calcVars,
                   collectVars>>

\* lines 475-573: the exit code check, the parse and the return
Finish(r) ==
    /\ pc[r] = "Evaluating"
    /\ LET res == Outcome(exit_code[r], stdout_data[r], stderr_data[r])
       IN  /\ result' = [result EXCEPT ![r] = res]
           /\ pc' = [pc EXCEPT ![r] = IF res.kind = "Ok" THEN "Succeeded" ELSE "Failed"]
    /\ UNCHANGED <<child, events, stdout_data, stderr_data, exit_code,
                   current_pid, hookVars, harnessVars, calcVars,
                   collectVars>>

\* the sidecar process ends, by itself or on the signal
ChildExit(r) ==
    /\ child[r] = "running"
    /\ child' = [child EXCEPT ![r] = "exited"]
    /\ UNCHANGED <<pc, events, stdout_data, stderr_data, exit_code, result,
                   current_pid, hookVars, harnessVars, calcVars,
                   collectVars>>

----------------------------------------------------------------------------
(* The shutdown hook of run(), lib.rs *)

\* kill_process(pid): one termination signal for pid
kill_process(pid) == signals' = Append(signals, pid)

\* the hook reading the slot without clearing it
ExitRequested_Peek ==
    /\ IF current_pid # None THEN kill_process(current_pid[1]) ELSE UNCHANGED signals
    /\ UNCHANGED <<runVars, current_pid, harnessVars, calcVars,
                   collectVars>>

\* lines 25-37, RunEvent::ExitRequested: the slot is taken under the lock and
\* the pid found in it, if any, is signalled; nothing is awaited in between
ExitRequested ==
    LET pid_opt == current_pid
    IN  /\ current_pid' = None
        /\ IF pid_opt # None THEN kill_process(pid_opt[1]) ELSE UNCHANGED signals
        /\ UNCHANGED <<runVars, harnessVars, calcVars,
                   collectVars>>

----------------------------------------------------------------------------

Next ==
    \/ \E r \in Runs :
         \/ SpawnFails(r)
         \/ Spawn(r)
         \/ StorePid(r)
         \/ RecvStdout(r)
         \/ RecvStderr(r)
         \/ RecvOther(r)
         \/ RecvTerminated(r)
         \/ RecvClosed(r)
         \/ ClearPid(r)
         \/ Finish(r)
         \/ ChildExit(r)
    \/ ExitRequested

Spec == Init /\ [][Next]_vars

\* a run that left its event loop goes on to its clear step and its return:
\* nothing is awaited there but the slot's lock, which no holder keeps over
\* an await
Fairness == \A r \in Runs : WF_vars(ClearPid(r)) /\ WF_vars(Finish(r))

SpecFair == Init /\ [][Next]_vars /\ Fairness

----------------------------------------------------------------------------
(* extract_json on its own: every text over the characters it tells apart *)

Alphabet == {"{", "}", "\"", "\\", "a"}

\* noise {"a":1,"b":"}{"} more noise
Example ==
    <<"n", "o", "i", "s", "e", " ",
      "{", "\"", "a", "\"", ":", "1", ",", "\"", "b", "\"", ":", "\"", "}", "{", "\"", "}",
      " ", "m", "o", "r", "e", " ", "n", "o", "i", "s", "e">>

ExampleJson ==
    <<"{", "\"", "a", "\"", ":", "1", ",", "\"", "b", "\"", ":", "\"", "}", "{", "\"", "}">>

Texts == UNION {[1..n -> Alphabet] : n \in 0..MaxLen} \cup {Example}

InitExtract ==
    /\ RunInit
    /\ HostInit
    /\ input \in Texts
    /\ called = FALSE
    /\ output = None
    /\ CalcIdle
    /\ CollectInit

CallExtract ==
    /\ ~called
    /\ output' = extract_json(input)
    /\ called' = TRUE
    /\ UNCHANGED <<runVars, current_pid, hookVars, input, calcVars, collectVars>>

NextExtract == CallExtract

SpecExtract == InitExtract /\ [][NextExtract]_vars

----------------------------------------------------------------------------
(* get_quantile_position on its own: a table and two values of its grid *)

\* points taken in every interval of a table, the lower breakpoint included
Subdivisions == 2

Tables == [DOM |-> DOM_QUANTILES, REQUEST |-> REQUEST_QUANTILES,
           SIZE |-> SIZE_QUANTILES]

TableNames == {"DOM", "REQUEST", "SIZE"}

\* the breakpoints of a table, the points between them, a value below the
\* first breakpoint and a value above the last
Grid(T) ==
    {Add(T[i], Div(Mul(Whole(k), Sub(T[i + 1], T[i])), Whole(Subdivisions))) :
        i \in 1..(Len(T) - 1), k \in 0..(Subdivisions - 1)}
    \cup {T[Len(T)], Sub(T[1], Whole(10)), Add(T[Len(T)], Whole(1))}

InitQuantile ==
    /\ RunInit
    /\ HostInit
    /\ HarnessInit
    /\ CollectInit
    /\ q_in \in UNION {{Some([table |-> n, v1 |-> a, v2 |-> b]) :
                             a \in Grid(Tables[n]), b \in Grid(Tables[n])} :
                          n \in TableNames}
    /\ q_out = None
    /\ raw = None
    /\ audit = None
    /\ eco = None

CallQuantile ==
    /\ q_out = None
    /\ q_out' = Some([p1 |-> get_quantile_position(q_in[1].v1, Tables[q_in[1].table]),
                      p2 |-> get_quantile_position(q_in[1].v2, Tables[q_in[1].table])])
    /\ UNCHANGED <<runVars, current_pid, hookVars, harnessVars, q_in, raw, audit,
                   eco, collectVars>>

NextQuantile == CallQuantile

SpecQuantile == InitQuantile /\ [][NextQuantile]_vars

----------------------------------------------------------------------------
(* The outcome of a run whose child left with code 0, for a stdout buffer *)

\* texts of up to four characters: braces, the member "S" of the success
\* schema, the member "E" of the error schema, and other text
Buffers == UNION {[1..n -> {"{", "}", "S", "E", "x"}] : n \in 0..4}

InitClassify ==
    /\ RunInit
    /\ HostInit
    /\ input \in Buffers
    /\ called = FALSE
    /\ output = None
    /\ CalcIdle
    /\ CollectInit

CallOutcome ==
    /\ ~called
    /\ output' = Some(Outcome(Some(0), input, <<>>))
    /\ called' = TRUE
    /\ UNCHANGED <<runVars, current_pid, hookVars, input, calcVars, collectVars>>

NextClassify == CallOutcome

SpecClassify == InitClassify /\ [][NextClassify]_vars

----------------------------------------------------------------------------
(* The argument vector of the external tool *)

\* --html is passed whether or not the report was requested
BuildArgs_AlwaysHtml(script_path, url, chrome_path, include_html) ==
    Append(<<script_path, url, chrome_path>>, "--html")

\* lines 428-435 of run_lighthouse_analysis: the vector given to .args()
BuildArgs(script_path, url, chrome_path, include_html) ==
    LET args == <<script_path, url, chrome_path>>
    IN  IF include_html THEN Append(args, "--html") ELSE args

ScriptPaths == {"/res/lighthouse/index.js", "C:\\res\\index.js", "--html"}
TargetUrls == {"https://example.com", "https://example.org/?a=--html", "--html"}
ChromePaths == {"/usr/bin/chromium", "C:\\Chrome\\chrome.exe", ""}

InitArgs ==
    /\ RunInit
    /\ HostInit
    /\ HarnessInit
    /\ CollectInit
    /\ q_in \in {Some([script_path |-> s, url |-> u, chrome_path |-> c,
                        include_html |-> h]) :
                      s \in ScriptPaths, u \in TargetUrls, c \in ChromePaths,
                      h \in BOOLEAN}
    /\ q_out = None
    /\ raw = None
    /\ audit = None
    /\ eco = None

CallBuildArgs ==
    /\ q_out = None
    /\ q_out' = Some(BuildArgs(q_in[1].script_path, q_in[1].url,
                               q_in[1].chrome_path, q_in[1].include_html))
    /\ UNCHANGED <<runVars, current_pid, hookVars, harnessVars, q_in, raw, audit,
                   eco, collectVars>>

NextArgs == CallBuildArgs

SpecArgs == InitArgs /\ [][NextArgs]_vars

----------------------------------------------------------------------------
(* The score of two pages at a time *)

\* the light page and the heavy page of the calculator's tests
LightPage == PageMetrics_new(100, 10, Whole(100))
HeavyPage == PageMetrics_new(5000, 200, Whole(10000))

\* the second and third breakpoint of every table, and the metrics of the
\* light and of the heavy page
PageMetricsSet ==
    {PageMetrics_new(d, r, s) : d \in {47, 75, 100, 5000}, r \in {2, 10, 15, 200},
                                 s \in {Hundredths(137), Whole(100),
                                        Hundredths(14470), Whole(10000)}}

\* how many of the three metrics differ
Differences(m1, m2) ==
    (IF m1.dom_elements = m2.dom_elements THEN 0 ELSE 1)
    + (IF m1.requests = m2.requests THEN 0 ELSE 1)
    + (IF m1.size_kb = m2.size_kb THEN 0 ELSE 1)

\* two pages that differ in at most one metric, or a page and the light page
PagePairs ==
    {pair \in PageMetricsSet \X PageMetricsSet :
        Differences(pair[1], pair[2]) <= 1 \/ pair[2] = LightPage}

InitPages ==
    /\ RunInit
    /\ HostInit
    /\ HarnessInit
    /\ CollectInit
    /\ q_in \in {Some([m1 |-> pair[1], m2 |-> pair[2]]) : pair \in PagePairs}
    /\ q_out = None
    /\ raw = None
    /\ audit = None
    /\ eco = None

CallScore ==
    /\ q_out = None
    /\ q_out' = Some([score1 |-> compute_score(q_in[1].m1),
                      score2 |-> compute_score(q_in[1].m2)])
    /\ UNCHANGED <<runVars, current_pid, hookVars, harnessVars, q_in, raw, audit,
                   eco, collectVars>>

NextPages == CallScore

SpecPages == InitPages /\ [][NextPages]_vars

----------------------------------------------------------------------------
(* The grade and the two estimates of a score, for two scores at a time *)

\* every fifth whole score of [0, 100], and every threshold of the two grade
\* mappings with the whole score and the hundredth just below it
Scores ==
    {Whole(5 * k) : k \in 0..20}
    \cup UNION {{Whole(t), Whole(t - 1), Sub(Whole(t), Hundredths(1))} :
                  t \in {81, 71, 61, 51, 41, 31, 80, 70, 55, 40, 25, 10}}

InitGrade ==
    /\ RunInit
    /\ HostInit
    /\ HarnessInit
    /\ CollectInit
    /\ q_in \in {Some([s1 |-> a, s2 |-> b]) : a \in Scores, b \in Scores}
    /\ q_out = None
    /\ raw = None
    /\ audit = None
    /\ eco = None

CallGrade ==
    /\ q_out = None
    /\ q_out' = Some([grade1 |-> get_grade(q_in[1].s1),
                      grade2 |-> get_grade(q_in[1].s2),
                      ghg1 |-> compute_ghg(q_in[1].s1),
                      ghg2 |-> compute_ghg(q_in[1].s2),
                      water1 |-> compute_water(q_in[1].s1),
                      water2 |-> compute_water(q_in[1].s2),
                      domain_grade1 |-> EcoIndexGrade_from_score(q_in[1].s1)])
    /\ UNCHANGED <<runVars, current_pid, hookVars, harnessVars, q_in, raw, audit,
                   eco, collectVars>>

NextGrade == CallGrade

SpecGrade == InitGrade /\ [][NextGrade]_vars

----------------------------------------------------------------------------
(* The two scoring paths on the same raw counters *)

\* counters on a breakpoint, between two breakpoints, beyond the last one
DomCounts == {0, 61, 233, 700000}
RequestCounts == {0, 20, 42, 4000}
ByteCounts == {0, 1101, 144700, 1000000, 300000000}

\* the fields of RawSidecarSuccess the scores could depend on
RawPayloads ==
    {[domElements |-> d, requests |-> r, totalTransferSize |-> b] @@ blocks :
        d \in DomCounts, r \in RequestCounts, b \in ByteCounts,
        blocks \in {BareBlocks, RichBlocks}}

\* the url analyze_ecoindex is called with
Urls == {"https://example.com", "https://example.org/page"}

InitScore ==
    /\ RunInit
    /\ HostInit
    /\ HarnessInit
    /\ CollectInit
    /\ q_in \in {Some(u) : u \in Urls}
    /\ q_out = None
    /\ raw \in {Some(p) : p \in RawPayloads}
    /\ audit = None
    /\ eco = None

\* the full-audit path: run_lighthouse_analysis on a success payload
FullAudit ==
    /\ audit = None
    /\ audit' = Some(SuccessResult(raw[1]))
    /\ UNCHANGED <<runVars, current_pid, hookVars, harnessVars, q_in, q_out, raw,
                   eco, collectVars>>

\* the fast path: analyze_ecoindex computes on the metrics collect returns
FastPath ==
    /\ eco = None
    /\ eco' = Some(compute(CollectedMetrics(raw[1].domElements, raw[1].requests,
                                            raw[1].totalTransferSize),
                           q_in[1]))
    /\ UNCHANGED <<runVars, current_pid, hookVars, harnessVars, q_in, q_out, raw,
                   audit, collectVars>>

NextScore == FullAudit \/ FastPath

SpecScore == InitScore /\ [][NextScore]_vars

----------------------------------------------------------------------------
(* MetricsCollector::collect, browser/collector.rs.  collect runs as one   *)
(* task of the multi-threaded runtime and its two counter tasks as two     *)
(* more, so a counter task can be in the middle of a poll, between the     *)
(* next() that handed it an event and its fetch_add, while collect goes    *)
(* on.  JoinHandle::abort marks a task: a task suspended at its await is   *)
(* never polled again, a task in the middle of a poll runs on until that   *)
(* poll returns.                                                           *)

\* events the browser emits for one page, over both listeners
MaxEvents == 2

\* EventLoadingFinished.encoded_data_length; an EventRequestWillBeSent counts 1
EncodedLengths == {1, 2}
Weights(t) == IF t = "req" THEN {1} ELSE EncodedLengths

\* what the two measuring scripts return
DomResults == {7}
HtmlSizes == {510}

Step(name, ok) == [step |-> name, ok |-> ok]
Err(error) == [kind |-> "Err", error |-> error]

otherVars == <<runVars, current_pid, hookVars, harnessVars, calcVars>>

Fired == task["req"].fired + task["size"].fired

\* lines 41-45: self.browser.new_page("about:blank").await
NewPage ==
    /\ c_pc = "new_page"
    /\ \E ok \in BOOLEAN :
          /\ c_trace' = Append(c_trace, Step("new_page", ok))
          /\ IF ok
             THEN /\ page' = "open"
                  /\ c_pc' = "network_enable"
                  /\ UNCHANGED c_result
             ELSE /\ c_result' = Err("PageCreationFailed")
                  /\ c_pc' = "returned"
                  /\ UNCHANGED page
    /\ UNCHANGED <<task, counter, c_local, otherVars>>

\* lines 47-49: page.execute(NetworkEnable::default()).await
EnableNetwork ==
    /\ c_pc = "network_enable"
    /\ \E ok \in BOOLEAN :
          /\ c_trace' = Append(c_trace, Step("network_enable", ok))
          /\ IF ok
             THEN c_pc' = "listen_requests" /\ UNCHANGED c_result
             ELSE c_result' = Err("CdpError") /\ c_pc' = "returned"
    /\ UNCHANGED <<page, task, counter, c_local, otherVars>>

\* lines 51-60: the two counters and page.event_listener::<EventRequestWillBeSent>()
ListenRequests ==
    /\ c_pc = "listen_requests"
    /\ \E ok \in BOOLEAN :
          /\ c_trace' = Append(c_trace, Step("listen_requests", ok))
          /\ IF ok
             THEN /\ task' = [task EXCEPT !["req"].subscribed = TRUE]
                  /\ c_pc' = "listen_finished"
                  /\ UNCHANGED c_result
             ELSE /\ c_result' = Err("CdpError")
                  /\ c_pc' = "returned"
                  /\ UNCHANGED task
    /\ UNCHANGED <<page, counter, c_local, otherVars>>

\* lines 62-65: page.event_listener::<EventLoadingFinished>()
ListenFinished ==
    /\ c_pc = "listen_finished"
    /\ \E ok \in BOOLEAN :
          /\ c_trace' = Append(c_trace, Step("listen_finished", ok))
          /\ IF ok
             THEN /\ task' = [task EXCEPT !["size"].subscribed = TRUE]
                  /\ c_pc' = "spawn"
                  /\ UNCHANGED c_result
             ELSE /\ c_result' = Err("CdpError")
                  /\ c_pc' = "returned"
                  /\ UNCHANGED task
    /\ UNCHANGED <<page, counter, c_local, otherVars>>

\* only the request counter task is started
SpawnTasks_OnlyRequests ==
    /\ c_pc = "spawn"
    /\ task' = [task EXCEPT !["req"].state = "idle"]
    /\ c_trace' = c_trace \o <<Step("spawn_req", TRUE), Step("spawn_size", TRUE)>>
    /\ c_local' = [c_local EXCEPT !.navigating = TRUE]
    /\ c_pc' = "goto"
    /\ UNCHANGED <<page, counter, c_result, otherVars>>

\* lines 67-80: tokio::spawn of req_handle and of size_handle, then
\* page.goto(url) is called: from here on the page can emit events
SpawnTasks ==
    /\ c_pc = "spawn"
    /\ task' = [t \in Tasks |-> [task[t] EXCEPT !.state = "idle"]]
    /\ c_trace' = c_trace \o <<Step("spawn_req", TRUE), Step("spawn_size", TRUE)>>
    /\ c_local' = [c_local EXCEPT !.navigating = TRUE]
    /\ c_pc' = "goto"
    /\ UNCHANGED <<page, counter, c_result, otherVars>>

\* a failed navigation is reported as a protocol error
Goto_WrongError ==
    /\ c_pc = "goto"
    /\ \E ok \in BOOLEAN :
          /\ c_trace' = Append(c_trace, Step("goto", ok))
          /\ IF ok
             THEN c_pc' = "sleep1" /\ UNCHANGED c_result
             ELSE c_result' = Err("CdpError") /\ c_pc' = "returned"
    /\ UNCHANGED <<page, task, counter, c_local, otherVars>>

\* a navigation that is tried a second time after its first failure
Goto_Retry ==
    /\ c_pc = "goto"
    /\ \E ok \in BOOLEAN :
          /\ c_trace' = Append(c_trace, Step("goto", ok))
          /\ IF ok
             THEN c_pc' = "sleep1" /\ UNCHANGED c_result
             ELSE IF \A i \in 1..Len(c_trace) : c_trace[i].step # "goto"
                  THEN c_pc' = "goto" /\ UNCHANGED c_result
                  ELSE c_result' = Err("NavigationFailed") /\ c_pc' = "returned"
    /\ UNCHANGED <<page, task, counter, c_local, otherVars>>

\* lines 80-82: page.goto(url).await returns
Goto ==
    /\ c_pc = "goto"
    /\ \E ok \in BOOLEAN :
          /\ c_trace' = Append(c_trace, Step("goto", ok))
          /\ IF ok
             THEN c_pc' = "sleep1" /\ UNCHANGED c_result
             ELSE c_result' = Err("NavigationFailed") /\ c_pc' = "returned"
    /\ UNCHANGED <<page, task, counter, c_local, otherVars>>

\* line 84: tokio::time::sleep(Duration::from_secs(3)).await
Sleep1 ==
    /\ c_pc = "sleep1"
    /\ c_trace' = Append(c_trace, Step("sleep", TRUE))
    /\ c_pc' = "scroll"
    /\ UNCHANGED <<page, task, counter, c_local, c_result, otherVars>>

\* lines 86 and 106-111: self.scroll_to_bottom(&page).await?
ScrollToBottom ==
    /\ c_pc = "scroll"
    /\ \E ok \in BOOLEAN :
          /\ c_trace' = Append(c_trace, Step("scroll", ok))
          /\ IF ok
             THEN c_pc' = "sleep2" /\ UNCHANGED c_result
             ELSE c_result' = Err("JavaScriptError") /\ c_pc' = "returned"
    /\ UNCHANGED <<page, task, counter, c_local, otherVars>>

\* line 88: the second sleep
Sleep2 ==
    /\ c_pc = "sleep2"
    /\ c_trace' = Append(c_trace, Step("sleep", TRUE))
    /\ c_pc' = "count_dom"
    /\ UNCHANGED <<page, task, counter, c_local, c_result, otherVars>>

\* lines 90 and 113-135: self.count_dom_elements(&page).await?
CountDom ==
    /\ c_pc = "count_dom"
    /\ \E ok \in BOOLEAN :
          /\ c_trace' = Append(c_trace, Step("count_dom", ok))
          /\ IF ok
             THEN /\ \E n \in DomResults :
                        c_local' = [c_local EXCEPT !.dom_count = Some(n)]
                  /\ c_pc' = "html_size"
                  /\ UNCHANGED c_result
             ELSE /\ c_result' = Err("JavaScriptError")
                  /\ c_pc' = "returned"
                  /\ UNCHANGED c_local
    /\ UNCHANGED <<page, task, counter, otherVars>>

\* lines 91 and 137-146: self.get_html_size(&page).await?
HtmlSize ==
    /\ c_pc = "html_size"
    /\ \E ok \in BOOLEAN :
          /\ c_trace' = Append(c_trace, Step("html_size", ok))
          /\ IF ok
             THEN /\ \E n \in HtmlSizes :
                        c_local' = [c_local EXCEPT !.html_size = Some(n)]
                  /\ c_pc' = "abort_req"
                  /\ UNCHANGED c_result
             ELSE /\ c_result' = Err("JavaScriptError")
                  /\ c_pc' = "returned"
                  /\ UNCHANGED c_local
    /\ UNCHANGED <<page, task, counter, otherVars>>

\* JoinHandle::abort: a task suspended at its await is cancelled at once, a
\* task in the middle of a poll only carries the mark
Aborted(tk) ==
    [tk EXCEPT !.aborted = TRUE,
               !.state = IF tk.state = "idle" THEN "cancelled" ELSE tk.state,
               !.taken_at_abort = Some(tk.taken)]

\* line 93: req_handle.abort()
AbortReq ==
    /\ c_pc = "abort_req"
    /\ task' = [task EXCEPT !["req"] = Aborted(task["req"])]
    /\ c_trace' = Append(c_trace, Step("abort_req", TRUE))
    /\ c_pc' = "abort_size"
    /\ UNCHANGED <<page, counter, c_local, c_result, otherVars>>

\* line 94: size_handle.abort()
AbortSize ==
    /\ c_pc = "abort_size"
    /\ task' = [task EXCEPT !["size"] = Aborted(task["size"])]
    /\ c_trace' = Append(c_trace, Step("abort_size", TRUE))
    /\ c_pc' = "load_requests"
    /\ UNCHANGED <<page, counter, c_local, c_result, otherVars>>

\* line 96: request_count.load(Ordering::Relaxed)
LoadRequests ==
    /\ c_pc = "load_requests"
    /\ c_local' = [c_local EXCEPT !.requests = Some(counter["req"])]
    /\ c_trace' = Append(c_trace, Step("load_requests", TRUE))
    /\ c_pc' = "load_size"
    /\ UNCHANGED <<page, task, counter, c_result, otherVars>>

\* the HTML size is added to the counter's value a second time
LoadSize_HtmlTwice ==
    /\ c_pc = "load_size"
    /\ c_local' = [c_local EXCEPT !.size_bytes =
                       Some(counter["size"] + 2 * c_local.html_size[1])]
    /\ c_trace' = Append(c_trace, Step("load_size", TRUE))
    /\ c_pc' = "close"
    /\ UNCHANGED <<page, task, counter, c_result, otherVars>>

\* line 97: total_size.load(Ordering::Relaxed) + html_size
LoadSize ==
    /\ c_pc = "load_size"
    /\ c_local' = [c_local EXCEPT !.size_bytes = Some(counter["size"] + c_local.html_size[1])]
    /\ c_trace' = Append(c_trace, Step("load_size", TRUE))
    /\ c_pc' = "close"
    /\ UNCHANGED <<page, task, counter, c_result, otherVars>>

\* lines 99-103: size_kb, `let _ = page.close().await`, whose failure is
\* dropped, and Ok(PageMetrics::new(dom_count, requests, size_kb))
ClosePage ==
    /\ c_pc = "close"
    /\ \E ok \in BOOLEAN :
          /\ c_trace' = Append(c_trace, Step("close", ok))
          /\ page' = IF ok THEN "closed" ELSE page
    /\ c_result' = [kind |-> "Ok",
                    metrics |-> CollectedMetrics(c_local.dom_count[1],
                                                 c_local.requests[1],
                                                 c_local.size_bytes[1])]
    /\ c_pc' = "returned"
    /\ UNCHANGED <<task, counter, c_local, otherVars>>

\* the open page emits an event of listener t once navigation was asked for
BrowserEvent(t) ==
    /\ page = "open"
    /\ c_local.navigating
    /\ task[t].subscribed
    /\ Fired < MaxEvents
    /\ \E w \in Weights(t) :
          task' = [task EXCEPT ![t].queue = Append(@, w), ![t].fired = @ + 1]
    /\ UNCHANGED <<c_pc, page, counter, c_local, c_trace, c_result, otherVars>>

\* lines 68 and 74: next().await hands the task an event, either on waking a
\* suspended task that is not aborted or on the next turn of the loop
TaskTake(t) ==
    /\ \/ task[t].state = "idle" /\ ~task[t].aborted
       \/ task[t].state = "looping"
    /\ task[t].queue # <<>>
    /\ task' = [task EXCEPT ![t].state = "holding",
                            ![t].held = Some(Head(task[t].queue)),
                            ![t].queue = Tail(@),
                            ![t].taken = @ + Head(task[t].queue)]
    /\ UNCHANGED <<c_pc, page, counter, c_local, c_trace, c_result, otherVars>>

\* lines 69 and 76: fetch_add(.., Ordering::Relaxed)
TaskAdd(t) ==
    /\ task[t].state = "holding"
    /\ counter' = [counter EXCEPT ![t] = @ + task[t].held[1]]
    /\ task' = [task EXCEPT ![t].state = "looping", ![t].held = None]
    /\ UNCHANGED <<c_pc, page, c_local, c_trace, c_result, otherVars>>

\* lines 68 and 74: next() has nothing ready and the poll returns; the runtime
\* drops a task that was aborted meanwhile
TaskYield(t) ==
    /\ task[t].state = "looping"
    /\ task[t].queue = <<>>
    /\ task' = [task EXCEPT ![t].state = IF task[t].aborted THEN "cancelled"
                                         ELSE "idle"]
    /\ UNCHANGED <<c_pc, page, counter, c_local, c_trace, c_result, otherVars>>

NextCollect ==
    \/ NewPage
    \/ EnableNetwork
    \/ ListenRequests
    \/ ListenFinished
    \/ SpawnTasks
    \/ Goto
    \/ Sleep1
    \/ ScrollToBottom
    \/ Sleep2
    \/ CountDom
    \/ HtmlSize
    \/ AbortReq
    \/ AbortSize
    \/ LoadRequests
    \/ LoadSize
    \/ ClosePage
    \/ \E t \in Tasks : BrowserEvent(t)
    \/ \E t \in Tasks : TaskTake(t)
    \/ \E t \in Tasks : TaskAdd(t)
    \/ \E t \in Tasks : TaskYield(t)

InitCollect ==
    /\ RunInit
    /\ HostInit
    /\ HarnessInit
    /\ CalcIdle
    /\ CollectInit

SpecCollect == InitCollect /\ [][NextCollect]_vars

----------------------------------------------------------------------------
(* One Lighthouse analysis whose child writes nothing, next to one collect:
   the two pipelines of the program, each invoked once *)

NextPipelines ==
    \/ SpawnFails(1)
    \/ Spawn(1)
    \/ StorePid(1)
    \/ RecvTerminated(1)
    \/ RecvClosed(1)
    \/ ClearPid(1)
    \/ Finish(1)
    \/ ChildExit(1)
    \/ NextCollect

SpecPipelines == Init /\ [][NextPipelines]_vars

----------------------------------------------------------------------------
(* Properties of the orchestrator, the registry and the hook *)

Returned(r) == pc[r] \in {"Succeeded", "Failed"}
Spawned(r) == child[r] # "none"
LastEvent(r) == events[r][Len(events[r])]
NoDuplicates(s) == \A i, j \in 1..Len(s) : s[i] = s[j] => i = j

\* the payloads of the events of one type, in the order of arrival
RECURSIVE DataOf(_, _)
DataOf(evs, t) ==
    IF evs = <<>> THEN <<>>
    ELSE (IF Head(evs).type = t THEN Head(evs).data ELSE <<>>) \o DataOf(Tail(evs), t)

Contains(hay, needle) ==
    \E k \in 0..(Len(hay) - Len(needle)) :
        SubSeq(hay, k + 1, k + Len(needle)) = needle

\* C1: at the step by which a run that spawned a child returns, the registry
\* slot is empty.
C1_SlotEmptyAtReturn ==
    [][\A r \in Runs :
          (pc[r] = "Evaluating" /\ Returned(r)') => current_pid' = None]_vars

\* C2: the hook cannot miss a running child: as long as a child runs and has
\* not been signalled, its pid is in the slot for the hook to take.
C2_HookNeverMisses ==
    \A r \in Runs :
        (child[r] = "running" /\ PidOf(r) \notin Range(signals))
            => current_pid = Some(PidOf(r))

\* C3: a hook execution that finds pid P in the slot sends one signal to P and
\* empties the slot; one that finds the slot empty sends nothing; no step of a
\* run sends a signal; no pid is ever signalled twice.
C3_HookStep ==
    /\ (current_pid # None /\ UNCHANGED runVars /\ current_pid' # current_pid)
          => (current_pid' = None /\ signals' = Append(signals, current_pid[1]))
    /\ signals' # signals
          => /\ current_pid # None
             /\ signals' = Append(signals, current_pid[1])
             /\ current_pid' = None
             /\ UNCHANGED runVars

C3_TakeOnce == [](NoDuplicates(signals)) /\ [][C3_HookStep]_vars

\* a pid was taken and signalled while its child ran, and the hook ran again
\* after the same run had registered nothing new
C3_Witness ==
    /\ signals = <<PidOf(1)>>
    /\ current_pid = None
    /\ child[1] = "running"
    /\ pc[1] = "Running"

\* C4: a run that spawns its child moves Idle, Spawning, Running, Terminated,
\* then Succeeded or Failed, one after the other: the pid is written to the slot
\* by the step that enters Running, events are consumed only in Running, the
\* slot is emptied by the step that leaves Terminated, and the result is set
\* only after that step.  (A run that cannot spawn returns SpawnFailed at once.)
C4_Edges ==
    { <<"Idle", "Spawning">>, <<"Spawning", "Running">>, <<"Running", "Terminated">>,
      <<"Terminated", "Evaluating">>, <<"Evaluating", "Succeeded">>,
      <<"Evaluating", "Failed">> }

C4_Step(r) ==
    /\ pc'[r] # pc[r] =>
         \/ <<pc[r], pc'[r]>> \in C4_Edges
         \/ pc[r] = "Idle" /\ pc'[r] = "Failed" /\ ~Spawned(r)' /\ result'[r].kind = "SpawnFailed"
    /\ (pc[r] = "Idle" /\ pc'[r] = "Spawning") => child'[r] = "running"
    /\ (pc[r] = "Spawning" /\ pc'[r] = "Running") => current_pid' = Some(PidOf(r))
    /\ events'[r] # events[r] => pc[r] = "Running"
    /\ (pc[r] = "Terminated" /\ pc'[r] # pc[r]) => current_pid' = None /\ result'[r] = Pending
    /\ result'[r] # result[r] => (pc[r] \in {"Evaluating", "Idle"} /\ Returned(r)')
    /\ Returned(r) => (pc'[r] = pc[r] /\ result'[r] = result[r])

C4_RunOrder == [][\A r \in Runs : C4_Step(r)]_vars

C4_Witness ==
    /\ pc[1] = "Succeeded"
    /\ Len(events[1]) = 3
    /\ result[1].kind = "Ok"

C6_OneRunInFlight ==
    Cardinality({r \in Runs : pc[r] \in {"Spawning", "Running"}}) <= 1

\* C7: a run whose child exited with a code other than 0 fails: with
\* AnalysisFailed and the payload's code and message when stdout parses as an
\* error payload, else with ProcessFailed, the exit code, and a snapshot that
\* holds the stderr and the stdout text.
C7_NonZeroExit ==
    \A r \in Runs :
        (Returned(r) /\ exit_code[r] # None /\ exit_code[r] # Some(0)) =>
            LET stdout == from_utf8_lossy(stdout_data[r])
                stderr == from_utf8_lossy(stderr_data[r])
            IN  /\ pc[r] = "Failed"
                /\ IF ParseErrorResponse(stdout) # None
                   THEN result[r] = [kind |-> "AnalysisFailed",
                                     code |-> PayloadCode, message |-> PayloadMessage]
                   ELSE /\ result[r].kind = "ProcessFailed"
                        /\ result[r].code = exit_code[r][1]
                        /\ Contains(result[r].stderr, stderr)
                        /\ Contains(result[r].stderr, stdout)

C7_Witness ==
    /\ pc[1] = "Failed"
    /\ exit_code[1] = Some(1)
    /\ result[1].kind = "ProcessFailed"
    /\ stdout_data[1] = <<"{", "S", "}", "\n">>
    /\ stderr_data[1] # <<>>

\* C8: exit code 0 with an error payload extracted from stdout is a failure
\* AnalysisFailed carrying the payload's code and message.
C8_ErrorPayloadOnExit0 ==
    \A r \in Runs :
        (Returned(r) /\ exit_code[r] = Some(0)) =>
            LET json == extract_json(from_utf8_lossy(stdout_data[r]))
            IN  (json # None /\ JsonMembers(json[1]) = Some({"E"})) =>
                    /\ pc[r] = "Failed"
                    /\ result[r] = [kind |-> "AnalysisFailed",
                                    code |-> PayloadCode, message |-> PayloadMessage]

C8_Witness ==
    /\ pc[1] = "Failed"
    /\ exit_code[1] = Some(0)
    /\ stdout_data[1] = <<"x", "{", "E", "}", "\n">>
    /\ result[1].kind = "AnalysisFailed"

----------------------------------------------------------------------------
(* What extract_json is to return, stated position by position *)

\* the first '{' of a text, 0 when it has none
FirstBrace(s) ==
    IF \E i \in 1..Len(s) : s[i] = "{"
    THEN CHOOSE i \in 1..Len(s) : s[i] = "{" /\ \A j \in 1..(i - 1) : s[j] # "{"
    ELSE 0

\* reading from position `from`: is the character at k escaped, that is, inside
\* a string and right after a backslash that is itself not escaped; and is the
\* text inside a string once the character at k has been read
RECURSIVE IsEscaped(_, _, _), InsideAfter(_, _, _)
IsEscaped(s, from, k) ==
    /\ k > from
    /\ s[k - 1] = "\\"
    /\ ~IsEscaped(s, from, k - 1)
    /\ InsideAfter(s, from, k - 1)

InsideAfter(s, from, k) ==
    IF k < from THEN FALSE
    ELSE IF s[k] = "\"" /\ ~IsEscaped(s, from, k)
    THEN ~InsideAfter(s, from, k - 1)
    ELSE InsideAfter(s, from, k - 1)

\* the character at k is the brace c outside every string
BraceAt(s, from, k, c) ==
    s[k] = c /\ ~IsEscaped(s, from, k) /\ ~InsideAfter(s, from, k)

\* opening minus closing braces outside strings in from..k
DepthAfter(s, from, k) ==
    Cardinality({i \in from..k : BraceAt(s, from, i, "{")})
        - Cardinality({i \in from..k : BraceAt(s, from, i, "}")})

\* the positions at which a '}' outside strings brings the depth back to 0
Closings(s, from) ==
    {k \in from..Len(s) : BraceAt(s, from, k, "}") /\ DepthAfter(s, from, k) = 0}

Balanced(s) ==
    LET from == FirstBrace(s)
    IN  IF from = 0 \/ Closings(s, from) = {} THEN None
        ELSE LET k == CHOOSE x \in Closings(s, from) : \A y \in Closings(s, from) : x <= y
             IN  Some(SubSeq(s, from, k))

\* C9: exit code 0 and a stdout without a balanced object is a ParseError that
\* reports that no JSON was found, and no result.
C9_NoObjectIsParseError ==
    \A r \in Runs :
        (Returned(r) /\ exit_code[r] = Some(0)
                     /\ Balanced(from_utf8_lossy(stdout_data[r])) = None) =>
            /\ pc[r] = "Failed"
            /\ result[r] = [kind |-> "ParseError", why |-> "No valid JSON found in output",
                            text |-> from_utf8_lossy(stdout_data[r])]

\* the output holds braces, all of them never closed outside a string
C9_Witness ==
    /\ pc[1] = "Failed"
    /\ exit_code[1] = Some(0)
    /\ stdout_data[1] = <<"x", "{", "\"", "}", "\"">>
    /\ result[1].kind = "ParseError"

\* C10: extract_json returns the text from the first '{' to the first '}' that
\* brings the depth back to 0, quotes toggling the string state unless escaped
\* inside a string and braces counting only outside strings; None when there
\* is no such '}'; and the object of the example for the example.
C10_ExtractJson ==
    called =>
        /\ output = Balanced(input)
        /\ input = Example => output = Some(ExampleJson)

C10_Witness ==
    /\ called
    /\ input = Example
    /\ output = Some(ExampleJson)

\* a text that is one balanced object from its first to its last character
IsObject(t) == t # <<>> /\ t[1] = "{" /\ Balanced(t) = Some(t)

\* C32: when the text is diagnostic text, then one balanced object, then
\* trailing text, the extractor returns that object, whatever characters the
\* diagnostic text holds, braces and double quotes included.
C32_DiagnosticsIgnored ==
    called =>
        \A i \in 1..Len(input) : \A j \in i..Len(input) :
            LET diagnostic == SubSeq(input, 1, i - 1)
                object == SubSeq(input, i, j)
                trailing == SubSeq(input, j + 1, Len(input))
            IN  (/\ IsObject(object)
                 /\ Balanced(diagnostic) = None
                 /\ Balanced(trailing) = None) => output = Some(object)

\* C33: the extracted payload is a success when it satisfies the success
\* schema, whether or not it has the fields of the error schema too, an
\* embedded error when it satisfies the error schema only, and a ParseError
\* when it satisfies neither; one of the three for every candidate.
C33_SuccessFirst ==
    (called /\ Balanced(input) # None) =>
        LET members == JsonMembers(Balanced(input)[1])
            kind == output[1].kind
        IN  /\ kind \in {"Ok", "AnalysisFailed", "ParseError"}
            /\ (members # None /\ "S" \in members[1]) => kind = "Ok"
            /\ (members # None /\ "S" \notin members[1] /\ "E" \in members[1]) =>
                  output[1] = [kind |-> "AnalysisFailed", code |-> PayloadCode,
                               message |-> PayloadMessage]
            /\ (members = None \/ members[1] \cap {"S", "E"} = {}) =>
                  kind = "ParseError"

\* an object with the fields of both schemas: a success
C33_Witness ==
    /\ called
    /\ input = <<"{", "E", "S", "}">>
    /\ output[1].kind = "Ok"

----------------------------------------------------------------------------
(* Properties of the calculator and of the two scoring paths *)

\* the PageMetrics the full-audit path is to score: the payload's DOM count,
\* its request count and its transfer size in units of 1000 bytes
MetricsOfPayload(payload) ==
    PageMetrics_new(payload.domElements, payload.requests,
                    Frac(payload.totalTransferSize, 1000))

SameCounters(p1, p2) ==
    /\ p1.domElements = p2.domElements
    /\ p1.requests = p2.requests
    /\ p1.totalTransferSize = p2.totalTransferSize

\* C11: for a success payload, the score, grade, ghg and water of the result
\* are what the calculator yields for PageMetrics(domElements, requests,
\* totalTransferSize / 1000), with score, ghg and water rounded to two
\* decimals, and they are the same for every payload with the same three
\* counters.
C11_ScoreFromCalculator ==
    audit # None =>
        LET s == compute_score(MetricsOfPayload(raw[1]))
        IN  /\ audit[1].kind = "Ok"
            /\ audit[1].score = Round2(s)
            /\ audit[1].grade = get_grade(s)
            /\ audit[1].ghg = Round2(compute_ghg(s))
            /\ audit[1].water = Round2(compute_water(s))
            /\ \A other \in RawPayloads :
                  SameCounters(other, raw[1]) =>
                      /\ SuccessResult(other).score = audit[1].score
                      /\ SuccessResult(other).grade = audit[1].grade
                      /\ SuccessResult(other).ghg = audit[1].ghg
                      /\ SuccessResult(other).water = audit[1].water

\* a page of 61 elements, 20 requests and 1 000 000 bytes: every quantile
\* position is interpolated and the score has more than two decimals
C11_Witness ==
    /\ audit # None
    /\ raw[1].domElements = 61
    /\ raw[1].requests = 20
    /\ raw[1].totalTransferSize = 1000000
    /\ compute_score(MetricsOfPayload(raw[1])) # audit[1].score
    /\ audit[1].score = Hundredths(8593)

\* C12: for the same raw counters the fast path and the full-audit path score
\* the same PageMetrics: same size in KB, same score, same grade.
C12_PathsAgree ==
    (audit # None /\ eco # None) =>
        /\ eco[1].metrics.dom_elements = audit[1].dom_elements
        /\ eco[1].metrics.requests = audit[1].requests
        /\ Round2(eco[1].metrics.size_kb) = audit[1].size_kb
        /\ Round2(eco[1].score) = audit[1].score
        /\ eco[1].grade = audit[1].grade

\* C13: the grade the result carries is the grade get_grade gives to the score
\* the result carries, which is the rounded one.
C13_GradeOfCarriedScore ==
    audit # None => audit[1].grade = get_grade(audit[1].score)

\* the last breakpoint of a table
TableMax(quantiles) == quantiles[Len(quantiles)]

\* C21: the score of the metrics is clamp(100 - 5*(3*qDom + 2*qReq + qSize)/6,
\* 0, 100) for the quantile positions of the three metrics in their tables; it
\* lies within [0, 100], it is 100 when the three metrics are at their table
\* minimum and 0 when the three are at or above their table maximum.
C21_ScoreFormula ==
    eco # None =>
        LET m == eco[1].metrics
            dom == Whole(m.dom_elements)
            req == Whole(m.requests)
            qDom == get_quantile_position(dom, DOM_QUANTILES)
            qReq == get_quantile_position(req, REQUEST_QUANTILES)
            qSize == get_quantile_position(m.size_kb, SIZE_QUANTILES)
            sum == Add(Add(Mul(Whole(3), qDom), Mul(Whole(2), qReq)), qSize)
            s == eco[1].score
        IN  /\ s = Clamp(Sub(Whole(100), Div(Mul(Whole(5), sum), Whole(6))),
                         Whole(0), Whole(100))
            /\ Le(Whole(0), s)
            /\ Le(s, Whole(100))
            /\ (/\ dom = DOM_QUANTILES[1]
                /\ req = REQUEST_QUANTILES[1]
                /\ m.size_kb = SIZE_QUANTILES[1]) => s = Whole(100)
            /\ (/\ Le(TableMax(DOM_QUANTILES), dom)
                /\ Le(TableMax(REQUEST_QUANTILES), req)
                /\ Le(TableMax(SIZE_QUANTILES), m.size_kb)) => s = Whole(0)

\* a page beyond the last breakpoint of the three tables, scored 0
C21_Witness ==
    /\ eco # None
    /\ eco[1].metrics.dom_elements = 700000
    /\ eco[1].metrics.requests = 4000
    /\ eco[1].metrics.size_kb = Frac(300000000, 1024)
    /\ eco[1].score = Whole(0)

C30_ArgumentVector ==
    q_out # None =>
        LET args == q_out[1]
        IN  /\ Len(args) = (IF q_in[1].include_html THEN 4 ELSE 3)
            /\ args[1] = q_in[1].script_path
            /\ args[2] = q_in[1].url
            /\ args[3] = q_in[1].chrome_path
            /\ q_in[1].include_html => args[4] = "--html"

\* the vector of a run without the HTML report: three elements
C30_Witness ==
    /\ q_out # None
    /\ ~q_in[1].include_html
    /\ q_out[1] = <<"/res/lighthouse/index.js", "https://example.com",
                    "/usr/bin/chromium">>

\* C28: on success the accessibility issues, the cache analysis, the
\* per-request list, the HTML report path, the TTFB, coverage, compression and
\* image-format blocks and the tool's sub-scores are in the result as they are
\* in the payload, and the analytics are attached if and only if the
\* per-request list is not empty.
C28_BlocksPassThrough ==
    audit # None =>
        LET p == raw[1]
            res == audit[1]
        IN  /\ res.issues = p.accessibilityIssues
            /\ res.cache_analysis = p.cacheAnalysis
            /\ res.request_details = p.requestDetails
            /\ res.html_report_path = p.htmlReportPath
            /\ res.ttfb = p.ttfb
            /\ res.coverage = p.coverage
            /\ res.compression = p.compression
            /\ res.image_formats = p.imageFormats
            /\ res.performance_score = p.performance
            /\ res.accessibility_score = p.accessibility
            /\ res.best_practices_score = p.bestPractices
            /\ res.seo_score = p.seo
            /\ res.first_contentful_paint = p.fcp
            /\ res.largest_contentful_paint = p.lcp
            /\ res.total_blocking_time = p.tbt
            /\ res.cumulative_layout_shift = p.cls
            /\ res.speed_index = p.si
            /\ res.time_to_interactive = p.tti
            /\ (res.analytics # None) <=> (p.requestDetails # <<>>)
            /\ p.requestDetails # <<>> =>
                  res.analytics = Some(RequestAnalytics_compute(p.requestDetails))

\* a payload without a per-request list: the result has no analytics
C28_Witness ==
    /\ audit # None
    /\ raw[1].requestDetails = <<>>
    /\ raw[1].performance = 50
    /\ audit[1].analytics = None
    /\ audit[1].performance_score = 50
    /\ audit[1].html_report_path = None

\* no metric of m1 is above that of m2
AtOrBelow(m1, m2) ==
    /\ m1.dom_elements <= m2.dom_elements
    /\ m1.requests <= m2.requests
    /\ Le(m1.size_kb, m2.size_kb)

\* C29: the light page (100, 10, 100 KB) scores at least 80, the heavy page
\* (5000, 200, 10000 KB) scores below 50, and a page with no metric above the
\* light page's never scores below the light page.
C29_LightAndHeavy ==
    q_out # None =>
        /\ q_in[1].m1 = LightPage => Le(Whole(80), q_out[1].score1)
        /\ q_in[1].m1 = HeavyPage => Lt(q_out[1].score1, Whole(50))
        /\ (q_in[1].m2 = LightPage /\ AtOrBelow(q_in[1].m1, LightPage))
              => Le(q_out[1].score2, q_out[1].score1)

\* the heavy page and the light page: the first below 50, the second at
\* least 80
C29_Witness ==
    /\ q_out # None
    /\ q_in[1].m1 = HeavyPage
    /\ q_in[1].m2 = LightPage
    /\ Lt(q_out[1].score1, Whole(50))
    /\ Le(Whole(80), q_out[1].score2)

\* C35: raising one metric while the other two stay never raises the score,
\* and the score falls by 5/6 of the weight of the metric (3 for the DOM, 2
\* for the requests, 1 for the size) times the rise of its quantile position.
C35_MonotoneAndWeighted ==
    (q_out # None /\ Differences(q_in[1].m1, q_in[1].m2) = 1
                 /\ AtOrBelow(q_in[1].m1, q_in[1].m2)) =>
        LET m1 == q_in[1].m1
            m2 == q_in[1].m2
            fall == Sub(q_out[1].score1, q_out[1].score2)
            Rise(v1, v2, T) ==
                Sub(get_quantile_position(v2, T), get_quantile_position(v1, T))
        IN  /\ Le(q_out[1].score2, q_out[1].score1)
            /\ m1.dom_elements # m2.dom_elements =>
                  fall = Mul(Frac(5 * 3, 6),
                             Rise(Whole(m1.dom_elements), Whole(m2.dom_elements),
                                  DOM_QUANTILES))
            /\ m1.requests # m2.requests =>
                  fall = Mul(Frac(5 * 2, 6),
                             Rise(Whole(m1.requests), Whole(m2.requests),
                                  REQUEST_QUANTILES))
            /\ m1.size_kb # m2.size_kb =>
                  fall = Mul(Frac(5 * 1, 6),
                             Rise(m1.size_kb, m2.size_kb, SIZE_QUANTILES))

\* the DOM goes from the breakpoint 47 to the next, 75: the score falls by
\* 5 * 3 / 6
C35_Witness ==
    /\ q_out # None
    /\ q_in[1].m1 = PageMetrics_new(47, 10, Whole(100))
    /\ q_in[1].m2 = PageMetrics_new(75, 10, Whole(100))
    /\ Sub(q_out[1].score1, q_out[1].score2) = Frac(5, 2)

\* the grades test_grade_thresholds expects
ExpectedGrades ==
    << <<100, "A">>, <<81, "A">>, <<80, "B">>, <<71, "B">>, <<70, "C">>,
       <<61, "C">>, <<60, "D">>, <<51, "D">>, <<50, "E">>, <<41, "E">>,
       <<40, "F">>, <<31, "F">>, <<30, "G">>, <<0, "G">> >>

\* the grades from the best to the worst
Grades == <<"A", "B", "C", "D", "E", "F", "G">>

\* A is rank 1, G is rank 7
Rank(grade) == CHOOSE k \in 1..Len(Grades) : Grades[k] = grade

\* C22: get_grade gives the grade of the first threshold, from 81 down, that
\* the score reaches: 100 and 81 are A, 80 and 71 B, 70 and 61 C, 60 and 51 D,
\* 50 and 41 E, 40 and 31 F, 30 and 0 G, and a score just below a threshold
\* gets the grade after that threshold's.
C22_GradeTable ==
    q_out # None =>
        LET s == q_in[1].s1
            g == q_out[1].grade1
        IN  /\ \A k \in 1..Len(ExpectedGrades) :
                  s = Whole(ExpectedGrades[k][1]) => g = ExpectedGrades[k][2]
            /\ \A k \in 1..Len(GRADE_THRESHOLDS) :
                  (/\ Le(GRADE_THRESHOLDS[k][1], s)
                   /\ \A j \in 1..(k - 1) : Lt(s, GRADE_THRESHOLDS[j][1]))
                  => g = GRADE_THRESHOLDS[k][2]
            /\ \A k \in 1..(Len(GRADE_THRESHOLDS) - 1) :
                  s = Sub(GRADE_THRESHOLDS[k][1], Hundredths(1))
                  => g = GRADE_THRESHOLDS[k + 1][2]

\* the score 80.99, just below the threshold of A, is graded B
C22_Witness ==
    /\ q_out # None
    /\ q_in[1].s1 = Hundredths(8099)
    /\ q_out[1].grade1 = "B"

\* C23: ghg is 2 + 2*(100 - score)/100 and water is 3 + 3*(100 - score)/100:
\* ghg is 2, 3, 4 and water is 3, 4.5, 6 for the scores 100, 50, 0.
C23_Estimates ==
    q_out # None =>
        LET s == q_in[1].s1
            rest == Div(Sub(Whole(100), s), Whole(100))
        IN  /\ q_out[1].ghg1 = Add(Whole(2), Mul(Whole(2), rest))
            /\ q_out[1].water1 = Add(Whole(3), Mul(Whole(3), rest))
            /\ s = Whole(100) => q_out[1].ghg1 = Whole(2) /\ q_out[1].water1 = Whole(3)
            /\ s = Whole(50) => q_out[1].ghg1 = Whole(3) /\ q_out[1].water1 = Frac(9, 2)
            /\ s = Whole(0) => q_out[1].ghg1 = Whole(4) /\ q_out[1].water1 = Whole(6)

\* the estimates of the score 50
C23_Witness ==
    /\ q_out # None
    /\ q_in[1].s1 = Whole(50)
    /\ q_out[1].ghg1 = Whole(3)
    /\ q_out[1].water1 = Frac(9, 2)

\* C24: for a score in [0, 100] ghg lies in [2, 4] and water in [3, 6], and
\* a higher score never has a higher ghg or water.
C24_EstimateRange ==
    q_out # None =>
        /\ Le(Whole(2), q_out[1].ghg1) /\ Le(q_out[1].ghg1, Whole(4))
        /\ Le(Whole(3), q_out[1].water1) /\ Le(q_out[1].water1, Whole(6))
        /\ Le(q_in[1].s1, q_in[1].s2) =>
              /\ Le(q_out[1].ghg2, q_out[1].ghg1)
              /\ Le(q_out[1].water2, q_out[1].water1)

\* the scores 25 and 75: both estimates of the second are lower
C24_Witness ==
    /\ q_out # None
    /\ q_in[1].s1 = Whole(25)
    /\ q_in[1].s2 = Whole(75)
    /\ Lt(q_out[1].ghg2, q_out[1].ghg1)
    /\ Lt(q_out[1].water2, q_out[1].water1)

\* C34: every score of [0, 100] gets exactly one grade of A..G, and of two
\* scores the higher never gets the worse grade.
C34_GradeTotalAndOrdered ==
    q_out # None =>
        /\ q_out[1].grade1 \in Range(Grades)
        /\ Le(q_in[1].s1, q_in[1].s2) =>
              Rank(q_out[1].grade2) <= Rank(q_out[1].grade1)

\* the scores 30 and 81: G and A
C34_Witness ==
    /\ q_out # None
    /\ q_in[1].s1 = Whole(30)
    /\ q_in[1].s2 = Whole(81)
    /\ q_out[1].grade1 = "G"
    /\ q_out[1].grade2 = "A"

\* C38: EcoIndexGrade::from_score gives every score of [0, 100] the letter
\* get_grade gives it.
C38_OneGradeMapping ==
    q_out # None => q_out[1].domain_grade1 = q_out[1].grade1

\* C19: the position of v in a table T is 0 for v <= T[0], 20 for v >= T[20],
\* and for T[i-1] < v < T[i] it is (i-1) + (v - T[i-1]) / (T[i] - T[i-1]),
\* strictly between i-1 and i; it is always within [0, 20].
C19_QuantilePosition ==
    q_out # None =>
        LET T == Tables[q_in[1].table]
            v == q_in[1].v1
            p == q_out[1].p1
        IN  /\ Len(T) = 21
            /\ Le(v, T[1]) => p = Whole(0)
            /\ Le(T[21], v) => p = Whole(20)
            /\ \A i \in 1..20 :
                  (Lt(T[i], v) /\ Lt(v, T[i + 1])) =>
                      /\ Mul(Sub(p, Whole(i - 1)), Sub(T[i + 1], T[i])) = Sub(v, T[i])
                      /\ Lt(Whole(i - 1), p)
                      /\ Lt(p, Whole(i))
            /\ Le(Whole(0), p)
            /\ Le(p, Whole(20))

\* 232.115 KB, half way between 144.7 and 319.53, has position 2.5
C19_Witness ==
    /\ q_out # None
    /\ q_in[1].table = "SIZE"
    /\ q_in[1].v1 = Frac(232115, 1000)
    /\ q_out[1].p1 = Frac(5, 2)

\* C20: get_quantile_position is non-decreasing in its value.
C20_Monotone ==
    q_out # None =>
        (Le(q_in[1].v1, q_in[1].v2) => Le(q_out[1].p1, q_out[1].p2))

\* two different values of one interval, and their two different positions
C20_Witness ==
    /\ q_out # None
    /\ q_in[1].table = "DOM"
    /\ q_in[1].v1 = Whole(47)
    /\ q_in[1].v2 = Whole(61)
    /\ q_out[1].p1 = Whole(1)
    /\ q_out[1].p2 = Frac(3, 2)

----------------------------------------------------------------------------
(* Properties of collect *)

StepsOf(trace) == [i \in 1..Len(trace) |-> trace[i].step]

IsPrefix(s, t) == Len(s) <= Len(t) /\ s = SubSeq(t, 1, Len(s))

\* the error a failure of each fallible step is to be reported as
ErrorOfStep ==
    [new_page |-> "PageCreationFailed", network_enable |-> "CdpError",
     listen_requests |-> "CdpError", listen_finished |-> "CdpError",
     goto |-> "NavigationFailed", scroll |-> "JavaScriptError",
     count_dom |-> "JavaScriptError", html_size |-> "JavaScriptError"]

\* the steps of a successful collect, in order
SuccessfulOrder ==
    <<"new_page", "network_enable", "listen_requests", "listen_finished",
      "spawn_req", "spawn_size", "goto", "sleep", "scroll", "sleep",
      "count_dom", "html_size", "abort_req", "abort_size", "load_requests",
      "load_size", "close">>

Position(name) == CHOOSE i \in 1..Len(SuccessfulOrder) : SuccessfulOrder[i] = name

\* C14: collect returns complete PageMetrics after every fallible step
\* succeeded, or the typed error of the first step that failed, that step
\* being the last one it ran, and then no PageMetrics.
C14_CompleteOrTypedError ==
    c_pc = "returned" =>
        LET n == Len(c_trace)
        IN  \/ /\ c_result.kind = "Ok"
               /\ DOMAIN c_result = {"kind", "metrics"}
               /\ c_result.metrics.dom_elements \in DomResults
               /\ c_result.metrics.requests \in 0..MaxEvents
               /\ IsFrac(c_result.metrics.size_kb)
               /\ \A i \in 1..n : c_trace[i].step \in DOMAIN ErrorOfStep => c_trace[i].ok
            \/ /\ c_result.kind = "Err"
               /\ DOMAIN c_result = {"kind", "error"}
               /\ n > 0
               /\ ~c_trace[n].ok
               /\ \A i \in 1..(n - 1) : c_trace[i].ok
               /\ c_trace[n].step \in DOMAIN ErrorOfStep
               /\ c_result.error = ErrorOfStep[c_trace[n].step]

\* navigation failed after both counter tasks were started
C14_Witness ==
    /\ c_pc = "returned"
    /\ c_result = Err("NavigationFailed")
    /\ c_trace[Len(c_trace)] = Step("goto", FALSE)
    /\ Fired = MaxEvents

\* C15: when collect has returned, with a result or with an error, the page
\* is not open and no counter task is left running.
C15_ReleasedOnReturn ==
    c_pc = "returned" =>
        /\ page # "open"
        /\ \A t \in Tasks : task[t].state \in {"none", "cancelled"}

\* C16: collect runs its steps in the fixed order, a successful collect all of
\* them; navigation is asked for only with both counter tasks started, and a
\* measuring script runs only after both waits.
C16_StepOrder ==
    /\ IsPrefix(StepsOf(c_trace), SuccessfulOrder)
    /\ c_result.kind = "Ok" => StepsOf(c_trace) = SuccessfulOrder
    /\ c_local.navigating => \A t \in Tasks : task[t].state # "none"
    /\ c_local.dom_count # None =>
          /\ Len(c_trace) >= Position("count_dom")
          /\ Cardinality({i \in 1..Position("count_dom") : c_trace[i].step = "sleep"}) = 2

\* a successful collect that counted one request and one finished load of
\* 2 bytes on top of 510 bytes of HTML
C16_Witness ==
    /\ c_result.kind = "Ok"
    /\ page = "closed"
    /\ c_result.metrics.requests = 1
    /\ c_result.metrics.size_kb = Frac(512, 1024)

\* C17: once both counter tasks have been stopped, no step increments a
\* counter.
C17_NoIncrementAfterStop ==
    [][(\A t \in Tasks : task[t].aborted) => counter' = counter]_vars

\* C18: the values collect reads at teardown hold every event its counter
\* task had been handed before it was stopped.
C18_NoLostUpdate ==
    /\ c_local.requests # None =>
          c_local.requests[1] >= task["req"].taken_at_abort[1]
    /\ c_local.size_bytes # None =>
          c_local.size_bytes[1] - c_local.html_size[1] >= task["size"].taken_at_abort[1]

\* C36: a run that fails before a child exists, returning SpawnFailed, leaves
\* the slot as it found it: it neither writes nor clears it.
C36_SpawnFailureKeepsSlot ==
    [][\A r \in Runs :
          (pc[r] = "Idle" /\ pc'[r] = "Failed") =>
              /\ result'[r].kind = "SpawnFailed"
              /\ child'[r] = "none"
              /\ current_pid' = current_pid]_vars

\* run 1 has failed to spawn while the slot holds the pid of run 2, whose
\* child is still running
C36_Witness ==
    /\ pc[1] = "Failed"
    /\ result[1].kind = "SpawnFailed"
    /\ pc[2] = "Running"
    /\ child[2] = "running"
    /\ current_pid = Some(PidOf(2))

\* the runs whose pid is recorded and whose clear step has not run yet
Registered == {r \in Runs : pc[r] \in {"Running", "Terminated"}}

\* C37: once a run has executed its clear step the slot never again holds its
\* pid and the hook never signals it; the slot holds nothing or the pid most
\* recently recorded, by a run that has not cleared yet; only the store step
\* of a run puts a pid in the slot.
C37_NoPidAfterClear ==
    /\ [](current_pid # None => \E r \in Registered : current_pid = Some(PidOf(r)))
    /\ [][/\ (current_pid' # current_pid /\ current_pid' # None) =>
               \E r \in Runs : /\ pc[r] = "Spawning"
                               /\ pc'[r] = "Running"
                               /\ current_pid' = Some(PidOf(r))
          /\ signals' # signals =>
               \E r \in Registered : signals' = Append(signals, PidOf(r))]_vars

\* run 1 has cleared and returned while the slot holds the pid of run 2, and
\* the hook has taken and signalled nothing yet
C37_Witness ==
    /\ pc[1] \in {"Succeeded", "Failed"}
    /\ child[1] = "exited"
    /\ pc[2] = "Running"
    /\ current_pid = Some(PidOf(2))
    /\ signals = <<>>

\* the number of navigations a collect has asked for
Navigations(trace) == Cardinality({i \in 1..Len(trace) : trace[i].step = "goto"})

\* C26: every error is terminal and nothing is retried: an invocation spawns
\* the tool at most once, from its start only, and navigates at most once,
\* and once a run or a collect has its error no step of that pipeline (spawn,
\* receive, clear, evaluation and scoring; navigation, script evaluation,
\* teardown read) is executed.
C26_ErrorsAreTerminal ==
    [][/\ (child'[1] = "running" /\ child[1] # "running") =>
               (pc[1] = "Idle" /\ child[1] = "none")
       /\ pc[1] # "Idle" => pc'[1] # "Idle"
       /\ pc[1] = "Failed" =>
               /\ pc'[1] = "Failed"
               /\ child'[1] = "running" => child[1] = "running"
               /\ UNCHANGED <<events, stdout_data, stderr_data, exit_code,
                              result, current_pid>>
       /\ pc'[1] = "Failed" => DOMAIN result'[1] \cap {"score", "grade"} = {}
       /\ Navigations(c_trace') <= 1
       /\ (c_result # Pending /\ c_result.kind = "Err") =>
               UNCHANGED <<c_pc, c_trace, c_result, c_local, page>>]_vars

\* the analysis failed because its event stream closed while the child still
\* runs, and the collect failed at its navigation after a request event had
\* been counted
C26_Witness ==
    /\ pc[1] = "Failed"
    /\ result[1].kind = "ProcessFailed"
    /\ child[1] = "running"
    /\ c_result # Pending
    /\ c_result.kind = "Err"
    /\ c_result.error = "NavigationFailed"
    /\ Navigations(c_trace) = 1

\* C31: on success the PageMetrics hold the DOM count script's result, the
\* request counter's value at the teardown read and, in kilobytes, the HTML
\* size plus the encoded bytes counter's value at its read, the HTML size
\* counted once; both counters are read after both scripts were evaluated.
C31_MetricsFromCounters ==
    /\ [](/\ c_local.requests # None =>
                (c_local.dom_count # None /\ c_local.html_size # None)
          /\ c_local.size_bytes # None =>
                (c_local.dom_count # None /\ c_local.html_size # None)
          /\ c_result.kind = "Ok" =>
                /\ c_result.metrics.dom_elements = c_local.dom_count[1]
                /\ c_result.metrics.requests = c_local.requests[1]
                /\ c_result.metrics.size_kb = Frac(c_local.size_bytes[1], 1024))
    /\ [][/\ c_local'.requests # c_local.requests =>
                 c_local'.requests = Some(counter["req"])
          /\ c_local'.size_bytes # c_local.size_bytes =>
                 c_local'.size_bytes = Some(counter["size"] + c_local.html_size[1])
          /\ c_local.dom_count # None => c_local'.dom_count = c_local.dom_count
          /\ c_local.html_size # None => c_local'.html_size = c_local.html_size]_vars

\* a successful collect whose counters held no request and the three encoded
\* bytes of two finished loads at the teardown read: 7 elements, 0 requests
\* and 513 / 1024 KB
C31_Witness ==
    /\ c_result.kind = "Ok"
    /\ c_local.html_size = Some(510)
    /\ c_result.metrics.dom_elements = 7
    /\ c_result.metrics.requests = 0
    /\ c_result.metrics.size_kb = Frac(513, 1024)

\* whether the event stream of run r has ended without a Terminated event
StreamClosed(r) == \E i \in 1..Len(events[r]) : events[r][i].type = "Closed"

\* C27: once the event stream has delivered terminated the run returns and
\* the slot gets cleared; while the tool does not terminate and its stream
\* stays open the run stays in its event loop and the slot keeps the child's
\* pid, the shutdown hook aside.
C27_BlockedUntilTerminated ==
    /\ \A r \in Runs : (pc[r] = "Terminated") ~> Returned(r)
    /\ \A r \in Runs : (pc[r] = "Terminated") ~> (current_pid = None)
    /\ [][\A r \in Runs :
             (/\ pc[r] = "Running"
              /\ child'[r] = "running"
              /\ ~StreamClosed(r)'
              /\ signals' = signals) =>
                 /\ pc'[r] = "Running"
                 /\ current_pid = Some(PidOf(r)) =>
                       current_pid' = Some(PidOf(r))]_vars

====
